---- MODULE Spec2Model ----
(***************************************************************************)
(* Carbon-credit dashboard: the data pipeline of src/lib/data.ts, the      *)
(* hooks useSearch and useCredits, the App view switch and the DataTable.  *)
(*                                                                         *)
(* JavaScript strings are sequences of one-character strings.  JavaScript  *)
(* numbers are fixed-point integers counting units of 1/Scale, so that a   *)
(* non-integer number (20.5) is representable.                             *)
(***************************************************************************)
EXTENDS Integers, Sequences, FiniteSets, TLC

\* ------------------------------------------------------------------ bounds
MaxCredits == 2          \* longest credits list handed to the pure functions
MaxAttemptsBound == 4    \* largest maxAttempts option tried on withRetry
MaxStatsCredits == 3     \* longest credits list handed to calculateDashboardStats
MaxItems == 7            \* longest list handed to a paginated component
MaxItemsPerPage == 3     \* largest itemsPerPage prop tried
MaxGridItems == 4        \* longest list handed to VirtualCreditGrid
MaxPages == 9            \* largest totalPages handed to generatePaginationItems

\* ------------------------------------------------------- numbers & strings
Scale == 2
Num(n) == n * Scale
IsInteger(x) == x % Scale = 0

\* Characters in UTF-16 code-unit order (only relative order is used).
Alphabet ==
  << " ", "-", ".", "0", "1", "2", "3", "4", "5", "6", "7", "8", "9",
     "A", "B", "C", "D", "E", "F", "G", "H", "I", "J", "K", "L", "M",
     "N", "O", "P", "Q", "R", "S", "T", "U", "V", "W", "X", "Y", "Z",
     "a", "b", "c", "d", "e", "f", "g", "h", "i", "j", "k", "l", "m",
     "n", "o", "p", "q", "r", "s", "t", "u", "v", "w", "x", "y", "z" >>

CharCode(c) == CHOOSE i \in 1..Len(Alphabet) : Alphabet[i] = c

IsUpper(c) == CharCode(c) >= CharCode("A") /\ CharCode(c) <= CharCode("Z")

\* String.prototype.toLowerCase on one character
LowerChar(c) == IF IsUpper(c) THEN Alphabet[CharCode(c) + 26] ELSE c

\* String.prototype.toLowerCase
ToLowerCase(s) == [i \in 1..Len(s) |-> LowerChar(s[i])]

RECURSIVE TrimStart(_)
TrimStart(s) == IF s # << >> /\ Head(s) = " " THEN TrimStart(Tail(s)) ELSE s

RECURSIVE TrimEnd(_)
TrimEnd(s) ==
  IF s # << >> /\ s[Len(s)] = " " THEN TrimEnd(SubSeq(s, 1, Len(s) - 1)) ELSE s

\* String.prototype.trim
Trim(s) == TrimEnd(TrimStart(s))

\* String.prototype.includes
Includes(text, term) ==
  \E i \in 1..(Len(text) - Len(term) + 1) : SubSeq(text, i, i + Len(term) - 1) = term

\* Relational < on two strings: lexicographic on code units
RECURSIVE StrLess(_, _)
StrLess(a, b) ==
  IF b = << >> THEN FALSE
  ELSE IF a = << >> THEN TRUE
  ELSE IF Head(a) # Head(b) THEN CharCode(Head(a)) < CharCode(Head(b))
  ELSE StrLess(Tail(a), Tail(b))

Digit(d) == Alphabet[CharCode("0") + d]

RECURSIVE NatToString(_)
NatToString(n) == IF n < 10 THEN << Digit(n) >> ELSE NatToString(n \div 10) \o << Digit(n % 10) >>

\* Number.prototype.toString for a non-negative number with at most one
\* fractional binary digit
NumberToString(x) ==
  IF IsInteger(x) THEN NatToString(x \div Scale)
  ELSE NatToString(x \div Scale) \o << ".", "5" >>

Active == << "A", "c", "t", "i", "v", "e" >>
Retired == << "R", "e", "t", "i", "r", "e", "d" >>
All == << "a", "l", "l" >>
\* vintageFilter 'all'; vintages are numbers >= 0
AllVintages == -1

\* ------------------------------------------------------------- the credits
\* Credit records as they come out of creditSchema
Credit(id, name, vintage, status) ==
  [unic_id |-> id, project_name |-> name, vintage |-> vintage, status |-> status]

CreditPool ==
  { Credit(<< "U", "1" >>, << "S", "o", "l" >>, Num(21), Active),
    Credit(<< "u", "2" >>, << "s", "u", "n" >>, Num(7), Retired),
    Credit(<< "U", "3" >>, << "S", "U", "N" >>, Num(21), Retired) }

RECURSIVE SeqsUpTo(_, _)
SeqsUpTo(S, n) ==
  IF n = 0 THEN { << >> }
  ELSE LET shorter == SeqsUpTo(S, n - 1)
       IN shorter \cup { Append(s, x) : s \in { t \in shorter : Len(t) = n - 1 }, x \in S }

\* searchableText of transformCreditsWithMetadata
SearchableText(c) ==
  ToLowerCase(c.project_name \o << " " >> \o c.unic_id \o << " " >>
              \o NumberToString(c.vintage) \o << " " >> \o c.status)

WithMetadata(c) ==
  [unic_id |-> c.unic_id, project_name |-> c.project_name,
   vintage |-> c.vintage, status |-> c.status,
   searchableText |-> SearchableText(c),
   displayName |-> c.project_name,
   vintageDisplay |-> NumberToString(c.vintage)]

transformCreditsWithMetadata(cs) == [i \in 1..Len(cs) |-> WithMetadata(cs[i])]

\* --------------------------------------------------- searchAndFilterCredits
SortKey(c, sortBy) ==
  CASE sortBy = "project_name" -> ToLowerCase(c.project_name)
    [] sortBy = "vintage" -> c.vintage
    [] sortBy = "status" -> c.status
    [] OTHER -> ToLowerCase(c.project_name)

KeyLess(x, y, sortBy) == IF sortBy = "vintage" THEN x < y ELSE StrLess(x, y)

\* the comparator handed to Array.prototype.sort
CompareAscendingOnly(a, b, sortBy, sortOrder) ==
  LET aValue == SortKey(a, sortBy)
      bValue == SortKey(b, sortBy)
  IN IF KeyLess(aValue, bValue, sortBy) THEN -1
     ELSE IF KeyLess(bValue, aValue, sortBy) THEN 1
     ELSE 0
Compare(a, b, sortBy, sortOrder) ==
  LET aValue == SortKey(a, sortBy)
      bValue == SortKey(b, sortBy)
  IN IF KeyLess(aValue, bValue, sortBy) THEN (IF sortOrder = "asc" THEN -1 ELSE 1)
     ELSE IF KeyLess(bValue, aValue, sortBy) THEN (IF sortOrder = "asc" THEN 1 ELSE -1)
     ELSE 0

\* Array.prototype.sort is stable: insert each element after the elements
\* that do not compare greater than it
RECURSIVE InsertSorted(_, _, _, _)
InsertSorted(sorted, c, sortBy, sortOrder) ==
  IF sorted = << >> THEN << c >>
  ELSE IF Compare(sorted[Len(sorted)], c, sortBy, sortOrder) <= 0 THEN Append(sorted, c)
  ELSE Append(InsertSorted(SubSeq(sorted, 1, Len(sorted) - 1), c, sortBy, sortOrder),
              sorted[Len(sorted)])

\* sorted holds the first Len(sorted) elements of cs, in order
RECURSIVE SortFrom(_, _, _, _)
SortFrom(sorted, cs, sortBy, sortOrder) ==
  IF Len(sorted) = Len(cs) THEN sorted
  ELSE SortFrom(InsertSorted(sorted, cs[Len(sorted) + 1], sortBy, sortOrder), cs, sortBy, sortOrder)

SortCredits(cs, sortBy, sortOrder) == SortFrom(<< >>, cs, sortBy, sortOrder)

\* variant: the vintage step filters the text matches, losing the status step
FilterCreditsVintageDropsStatus(cs, query, statusFilter, vintageFilter) ==
  LET searchTerm == Trim(ToLowerCase(query))
      MatchesText(c) == Includes(c.searchableText, searchTerm)
      MatchesStatus(c) == c.status = statusFilter
      MatchesVintage(c) == c.vintage = vintageFilter
      f1 == IF Trim(query) # << >> THEN SelectSeq(cs, MatchesText) ELSE cs
      f2 == IF statusFilter # All THEN SelectSeq(f1, MatchesStatus) ELSE f1
      f3 == IF vintageFilter # AllVintages THEN SelectSeq(f1, MatchesVintage) ELSE f2
  IN f3

\* variant: the query is trimmed but not lower-cased
FilterCreditsCaseSensitive(cs, query, statusFilter, vintageFilter) ==
  LET searchTerm == Trim(query)
      MatchesText(c) == Includes(c.searchableText, searchTerm)
      MatchesStatus(c) == c.status = statusFilter
      MatchesVintage(c) == c.vintage = vintageFilter
      f1 == IF Trim(query) # << >> THEN SelectSeq(cs, MatchesText) ELSE cs
      f2 == IF statusFilter # All THEN SelectSeq(f1, MatchesStatus) ELSE f1
      f3 == IF vintageFilter # AllVintages THEN SelectSeq(f2, MatchesVintage) ELSE f2
  IN f3

\* the three filter steps, before the sort
FilterCredits(cs, query, statusFilter, vintageFilter) ==
  LET searchTerm == Trim(ToLowerCase(query))
      MatchesText(c) == Includes(c.searchableText, searchTerm)
      MatchesStatus(c) == c.status = statusFilter
      MatchesVintage(c) == c.vintage = vintageFilter
      f1 == IF Trim(query) # << >> THEN SelectSeq(cs, MatchesText) ELSE cs
      f2 == IF statusFilter # All THEN SelectSeq(f1, MatchesStatus) ELSE f1
      f3 == IF vintageFilter # AllVintages THEN SelectSeq(f2, MatchesVintage) ELSE f2
  IN f3

\* no filter step ran, so `filtered` is still the caller's array and the
\* sort works on it in place
SortsInPlace(query, statusFilter, vintageFilter) ==
  Trim(query) = << >> /\ statusFilter = All /\ vintageFilter = AllVintages

searchAndFilterCredits(cs, query, statusFilter, vintageFilter, sortBy, sortOrder) ==
  SortCredits(FilterCredits(cs, query, statusFilter, vintageFilter), sortBy, sortOrder)

\* the caller's array after the call
CreditsAfterSearch(cs, query, statusFilter, vintageFilter, sortBy, sortOrder) ==
  IF SortsInPlace(query, statusFilter, vintageFilter)
  THEN SortCredits(cs, sortBy, sortOrder)
  ELSE cs

\* ------------------------------------------------------------------- state
VARIABLES
  fnPc,          \* pure-function harness: "raw", "ready", "done" or "doneDefault"
  fnRaw,         \* Credit[] given to transformCreditsWithMetadata
  fnCredits,     \* CreditWithMetadata[] given to searchAndFilterCredits
  fnArgs,        \* query, statusFilter, vintageFilter, sortBy, sortOrder
  fnResult       \* the array searchAndFilterCredits returned

fnVars == << fnPc, fnRaw, fnCredits, fnArgs, fnResult >>

VARIABLES
  credits,       \* the CreditWithMetadata[] held by useCredits and passed to useSearch
  hook,          \* per useSearch instance: state, debounced query, memo and its cache
  viewMode,      \* App: 'cards' or 'table'
  table          \* DataTable state while the table view is mounted

hookVars == << credits, hook, viewMode, table >>

VARIABLES
  rt,            \* the running withRetry call: options, loop position, what it did so far
  uc,            \* useCredits state: loading, error, stats, retryCount
  env,           \* what getCredits finds: the data query parameter, the remote answer, the bundled JSON
  online,        \* NetworkMonitor.isOnline
  getPc,         \* getCredits harness: "idle", "ready" or "done"
  getResult      \* how the last getCredits call settled

loadVars == << rt, uc, env, online, getPc, getResult >>

VARIABLES
  statsCall,     \* calculateDashboardStats harness: position, argument, result
  ui,            \* App dialogs, CertificateDialog state, downloads in flight, toasts
  pg,            \* a component using usePagination: its props and the hook's state
  vg             \* VirtualCreditGrid: its props and state

compVars == << statsCall, ui, pg, vg >>

vars == << fnVars, hookVars, loadVars, compVars >>

\* error: string | null
Null == "<null>"

\* Error objects: app tells an AppError from a plain Error
Err(message) == [app |-> FALSE, message |-> message, isRetryable |-> FALSE, userMessage |-> ""]
NoErr == Err("<undefined>")

EmptyStats ==
  [totalCredits |-> 0, activeCredits |-> 0, retiredCredits |-> 0,
   vintageRange |-> [min |-> 0, max |-> 0], availableVintages |-> << >>]

\* no withRetry call in progress
IdleRetry ==
  [pc |-> "idle", attempt |-> 0, maxAttempts |-> 0, delay |-> 0, backoff |-> FALSE,
   onRetry |-> FALSE, lastError |-> NoErr, result |-> << >>, calls |-> 0,
   onRetryCalls |-> << >>, waits |-> << >>, outcomes |-> << >>]

NoData == [array |-> TRUE, items |-> << >>]

\* no call of calculateDashboardStats under way
NoStatsCall == [pc |-> "idle", credits |-> << >>, result |-> EmptyStats]

NoUi == [pc |-> "idle"]
NoPg == [pc |-> "idle"]
NoVg == [pc |-> "idle"]

CompIdle ==
  /\ statsCall = NoStatsCall
  /\ ui = NoUi
  /\ pg = NoPg
  /\ vg = NoVg

LoadIdle ==
  /\ rt = IdleRetry
  /\ uc = [loading |-> FALSE, error |-> Null, stats |-> EmptyStats, retryCount |-> 0,
           lastLoad |-> "none"]
  /\ env = [dataUrl |-> FALSE, remote |-> [kind |-> "json", data |-> NoData], bundled |-> NoData]
  /\ online = TRUE
  /\ getPc = "idle"
  /\ getResult = [ok |-> FALSE, error |-> NoErr]

\* inputs tried on the pure functions
Queries ==
  { << >>, << " " >>, << "s", "o", "l" >>, << "S", "o", "L" >>, << "S", "o", "l" >>,
    << " ", "s", "u", " " >>, << "u", "1" >>, << "2", "1" >>,
    << "t", "i" >>, << "l", " ", "u" >>, << "x" >> }
StatusFilters == { All, Active, Retired }
VintageFilters == { AllVintages, Num(7), Num(21) }
SortBys == { "project_name", "vintage", "status" }
SortOrders == { "asc", "desc" }

SearchArgs ==
  [query : Queries, statusFilter : StatusFilters, vintageFilter : VintageFilters,
   sortBy : SortBys, sortOrder : SortOrders]

FnIdle ==
  /\ fnPc = "idle"
  /\ fnRaw = << >>
  /\ fnCredits = << >>
  /\ fnArgs = [query |-> << >>, statusFilter |-> All, vintageFilter |-> AllVintages,
               sortBy |-> "project_name", sortOrder |-> "asc"]
  /\ fnResult = << >>


\* ------------------------------------------------------------------ useSearch
Insts == { "app", "table" }

DefaultSearchState ==
  [query |-> << >>, statusFilter |-> All, vintageFilter |-> AllVintages,
   sortBy |-> "project_name", sortOrder |-> "asc"]

NoResults == [credits |-> << >>, totalCount |-> 0, filteredCount |-> 0, hasActiveFilters |-> FALSE]

\* a useSearch instance that is not rendered.  aliased: filteredResults.credits
\* is the very array passed in (the sort ran in place), its content is then
\* read from `credits`.  cleared: clearFilters was the last call on the hook.
UnmountedHook ==
  [mounted |-> FALSE, searchState |-> DefaultSearchState, debouncedQuery |-> << >>,
   filteredResults |-> NoResults, aliased |-> FALSE, previousDeps |-> << >>,
   cleared |-> FALSE]

NoTable == [filteredData |-> << >>, aliased |-> FALSE, hasActiveFilters |-> FALSE, searchQuery |-> << >>]

\* the dependency key `${credits.length}-${debouncedQuery}-${statusFilter}-...`;
\* the string determines its six parts (read from the right: two sort words, a
\* number or 'all', a status word; from the left: the length), so the tuple
\* of the parts stands for it
DepsKey(cs, dq, st) ==
  << Len(cs), dq, st.statusFilter, st.vintageFilter, st.sortBy, st.sortOrder >>

\* the body of the useMemo of filteredResults, run on array cs; gives the
\* hook after it and the array after it
MemoBody(h, cs) ==
  LET st == h.searchState
      dq == h.debouncedQuery
      currentDeps == DepsKey(cs, dq, st)
      filtered == searchAndFilterCredits(cs, dq, st.statusFilter, st.vintageFilter,
                                         st.sortBy, st.sortOrder)
      inPlace == SortsInPlace(dq, st.statusFilter, st.vintageFilter)
      hasActiveFilters ==
        Trim(dq) # << >> \/ st.statusFilter # All \/ st.vintageFilter # AllVintages
  IN IF h.previousDeps = currentDeps
     THEN [h |-> h, cs |-> cs]
     ELSE [h |-> [h EXCEPT
                    !.filteredResults =
                       [credits |-> IF inPlace THEN << >> ELSE filtered,
                        totalCount |-> Len(cs),
                        filteredCount |-> Len(filtered),
                        hasActiveFilters |-> hasActiveFilters],
                    !.aliased = inPlace,
                    !.previousDeps = currentDeps],
           cs |-> CreditsAfterSearch(cs, dq, st.statusFilter, st.vintageFilter,
                                     st.sortBy, st.sortOrder)]

\* the dependency array of the useMemo: the memo body runs only when one of
\* them changed since the previous render
MemoDepsChanged(hOld, hNew, creditsChanged) ==
  \/ creditsChanged
  \/ hNew.debouncedQuery # hOld.debouncedQuery
  \/ hNew.searchState.statusFilter # hOld.searchState.statusFilter
  \/ hNew.searchState.vintageFilter # hOld.searchState.vintageFilter
  \/ hNew.searchState.sortBy # hOld.searchState.sortBy
  \/ hNew.searchState.sortOrder # hOld.searchState.sortOrder

\* one render of a mounted hook
Render(hOld, hNew, cs, creditsChanged) ==
  IF hNew.mounted /\ MemoDepsChanged(hOld, hNew, creditsChanged)
  THEN MemoBody(hNew, cs)
  ELSE [h |-> hNew, cs |-> cs]

\* first render of a hook on array cs
MountHook(cs) == MemoBody([UnmountedHook EXCEPT !.mounted = TRUE], cs)

\* what filteredResults.credits of instance i holds
FilteredCredits(i) == IF hook[i].aliased THEN credits ELSE hook[i].filteredResults.credits

\* what DataTable's filteredData holds
TableData == IF table.aliased THEN credits ELSE table.filteredData

\* CreditFilters' effect: after a render of the table's hook the DataTable
\* takes over its results (handleFilteredResults, handleSearchStateChange)
TableAfter(h) ==
  IF h.mounted
  THEN [filteredData |-> h.filteredResults.credits, aliased |-> h.aliased,
        hasActiveFilters |-> h.filteredResults.hasActiveFilters,
        searchQuery |-> h.searchState.query]
  ELSE NoTable

\* a state change of instance i to hNew, with the render it causes
Update(i, hNew) ==
  LET r == Render(hook[i], hNew, credits, FALSE)
  IN /\ hook' = [hook EXCEPT ![i] = r.h]
     /\ credits' = r.cs
     /\ table' = IF i = "table" THEN TableAfter(r.h) ELSE table
     /\ UNCHANGED << viewMode, fnVars, loadVars, compVars >>

setQuery(i, query) ==
  /\ hook[i].mounted
  /\ Update(i, [hook[i] EXCEPT !.searchState.query = query, !.cleared = FALSE])

setStatusFilter(i, statusFilter) ==
  /\ hook[i].mounted
  /\ Update(i, [hook[i] EXCEPT !.searchState.statusFilter = statusFilter, !.cleared = FALSE])

setVintageFilter(i, vintageFilter) ==
  /\ hook[i].mounted
  /\ Update(i, [hook[i] EXCEPT !.searchState.vintageFilter = vintageFilter, !.cleared = FALSE])

setSortBy(i, sortBy) ==
  /\ hook[i].mounted
  /\ Update(i, [hook[i] EXCEPT !.searchState.sortBy = sortBy, !.cleared = FALSE])

setSortOrder(i, sortOrder) ==
  /\ hook[i].mounted
  /\ Update(i, [hook[i] EXCEPT !.searchState.sortOrder = sortOrder, !.cleared = FALSE])

clearFilters(i) ==
  /\ hook[i].mounted
  /\ Update(i, [hook[i] EXCEPT !.searchState = DefaultSearchState, !.cleared = TRUE])

\* useDebounce(searchState.query, 300): the timer started by the last change
\* of the query expires
DebounceFire(i) ==
  /\ hook[i].mounted
  /\ hook[i].debouncedQuery # hook[i].searchState.query
  /\ Update(i, [hook[i] EXCEPT !.debouncedQuery = hook[i].searchState.query])

\* the caller renders the hooks with another array (useCredits' setCredits).
\* Results that were the old array keep the old array.
Detach(h) ==
  IF h.aliased
  THEN [h EXCEPT !.filteredResults.credits = credits, !.aliased = FALSE]
  ELSE h

RerenderResult(newCredits) ==
  LET a == Render(hook["app"], [Detach(hook["app"]) EXCEPT !.cleared = FALSE], newCredits, TRUE)
      t == Render(hook["table"], [Detach(hook["table"]) EXCEPT !.cleared = FALSE], a.cs, TRUE)
  IN [hook |-> [app |-> a.h, table |-> t.h], credits |-> t.cs, table |-> TableAfter(t.h)]

Rerendered(newCredits) ==
  /\ hook' = RerenderResult(newCredits).hook
  /\ credits' = RerenderResult(newCredits).credits
  /\ table' = RerenderResult(newCredits).table
  /\ UNCHANGED viewMode

ReplaceCredits(newCredits) ==
  /\ Rerendered(newCredits)
  /\ UNCHANGED << fnVars, loadVars, compVars >>

\* App.handleViewModeChange.  Entering the table view mounts DataTable, whose
\* filteredData starts as the data prop, and CreditFilters with a useSearch of
\* its own on allData, whose effect then hands its results to the DataTable.
\* Leaving it unmounts both.
handleViewModeChange(mode) ==
  /\ mode # viewMode
  /\ viewMode' = mode
  /\ IF mode = "table"
     THEN LET t == MountHook(credits)
          IN /\ hook' = [hook EXCEPT !["table"] = t.h]
             /\ credits' = t.cs
             /\ table' = TableAfter(t.h)
     ELSE /\ hook' = [hook EXCEPT !["table"] = UnmountedHook]
          /\ table' = NoTable
          /\ UNCHANGED credits
  /\ UNCHANGED << fnVars, loadVars, compVars >>

\* the credits the hooks are rendered with
HookPool ==
  { Credit(<< "U", "1" >>, << "S", "o", "l" >>, Num(21), Active),
    Credit(<< "u", "2" >>, << "s", "u", "n" >>, Num(7), Retired) }

LoadedLists == { transformCreditsWithMetadata(l) : l \in SeqsUpTo(HookPool, MaxCredits) }

HookQueries == { << >>, << "s", "o", "l" >>, << " ", "s", "u", " " >>, << "t", "i" >> }

HookIdle ==
  /\ credits = << >>
  /\ hook = [i \in Insts |-> UnmountedHook]
  /\ viewMode = "cards"
  /\ table = NoTable

\* a component that calls useSearch(credits) has rendered once
HookInit ==
  /\ \E l \in LoadedLists :
       LET a == MountHook(l)
       IN /\ credits = a.cs
          /\ hook = [i \in Insts |-> IF i = "app" THEN a.h ELSE UnmountedHook]
  /\ viewMode = "cards"
  /\ table = NoTable
  /\ FnIdle
  /\ CompIdle
  /\ LoadIdle

\* useSearch on its own: every setter, the debounce timer, a new credits prop
HookNext ==
  \/ \E q \in HookQueries : setQuery("app", q)
  \/ \E s \in StatusFilters : setStatusFilter("app", s)
  \/ \E v \in VintageFilters : setVintageFilter("app", v)
  \/ \E b \in SortBys : setSortBy("app", b)
  \/ \E o \in SortOrders : setSortOrder("app", o)
  \/ clearFilters("app")
  \/ DebounceFire("app")
  \/ \E l \in LoadedLists : ReplaceCredits(l)

SpecHook == HookInit /\ [][HookNext]_vars

\* the dashboard with its data loaded: the search controls of App, those of
\* the table view, and the view switch
ViewQueries == { << >>, << "s", "o", "l" >> }

ViewNext ==
  \/ \E i \in Insts, q \in ViewQueries : setQuery(i, q)
  \/ \E i \in Insts, s \in StatusFilters : setStatusFilter(i, s)
  \/ \E i \in Insts, v \in VintageFilters : setVintageFilter(i, v)
  \/ \E i \in Insts : clearFilters(i)
  \/ \E i \in Insts : DebounceFire(i)
  \/ \E m \in { "cards", "table" } : handleViewModeChange(m)

ViewInit ==
  /\ HookInit
  /\ credits # << >>

SpecView == ViewInit /\ [][ViewNext]_vars


\* ------------------------------------------------------------------ withRetry
RECURSIVE Pow2(_)
Pow2(n) == IF n = 0 THEN 1 ELSE 2 * Pow2(n - 1)

\* delay * Math.pow(2, attempt - 1), or delay without backoff
CurrentDelayLinear(delay, backoff, attempt) == IF backoff THEN delay * attempt ELSE delay
CurrentDelay(delay, backoff, attempt) == IF backoff THEN delay * Pow2(attempt - 1) ELSE delay

\* `attempt === maxAttempts`: don't retry on the last attempt
IsLastAttemptOffByOne(attempt, maxAttempts) == attempt = maxAttempts + 1
IsLastAttempt(attempt, maxAttempts) == attempt = maxAttempts

\* `error instanceof AppError && !error.isRetryable`
NotRetryableAnyAppError(error) == error.app
NotRetryable(error) == error.app /\ ~error.isRetryable

\* withRetry(fn, options) up to its first call of fn
StartRetry(maxAttempts, delay, backoff, onRetry) ==
  [IdleRetry EXCEPT !.pc = "calling", !.attempt = 1, !.maxAttempts = maxAttempts,
                    !.delay = delay, !.backoff = backoff, !.onRetry = onRetry]

Succeeded(value) == [ok |-> TRUE, value |-> value]
Failed(error) == [ok |-> FALSE, error |-> error]

\* one pass of the loop body: fn() settles with `outcome`; on a failure that
\* is retried, onRetry is called and the timer is set
RetryStep(r, outcome) ==
  LET called == [r EXCEPT !.calls = @ + 1, !.outcomes = Append(@, outcome)]
  IN IF outcome.ok
     THEN [called EXCEPT !.pc = "resolved", !.result = outcome.value]
     ELSE LET failed == [called EXCEPT !.lastError = outcome.error]
          IN IF IsLastAttempt(r.attempt, r.maxAttempts) \/ NotRetryable(outcome.error)
             THEN [failed EXCEPT !.pc = "rejected"]
             ELSE [failed EXCEPT
                     !.pc = "waiting",
                     !.onRetryCalls = IF r.onRetry THEN Append(@, r.attempt) ELSE @,
                     !.waits = Append(@, CurrentDelay(r.delay, r.backoff, r.attempt))]

\* the setTimeout of the wait expires: next iteration
RetryResume(r) == [r EXCEPT !.pc = "calling", !.attempt = @ + 1]

\* ----------------------------------------------------------------- getCredits
JString(v) == [t |-> "string", v |-> v]
JNumber(v) == [t |-> "number", v |-> v]
JUndefined == [t |-> "undefined", v |-> 0]

RawRecord(id, name, vintage, status) ==
  [unic_id |-> id, project_name |-> name, vintage |-> vintage, status |-> status]

\* records found in a data source
Good1 == RawRecord(JString(<< "U", "1" >>), JString(<< "S", "o", "l" >>), JNumber(Num(21)), JString(Active))
Good2 == RawRecord(JString(<< "u", "2" >>), JString(<< "s", "u", "n" >>), JNumber(Num(7)), JString(Retired))
FractionalVintage == [Good1 EXCEPT !.vintage = JNumber(Num(20) + 1)]
StringVintage == [Good1 EXCEPT !.vintage = JString(<< "2", "1" >>)]
UnknownStatus == [Good2 EXCEPT !.status = JString(<< "S", "o", "l", "d" >>)]
MissingId == [Good2 EXCEPT !.unic_id = JUndefined]

RawPool == { Good1, Good2, FractionalVintage, StringVintage, UnknownStatus, MissingId }

\* creditSchema: z.object({unic_id: z.string(), project_name: z.string(),
\* vintage: z.number(), status: z.enum(["Active", "Retired"])})
SchemaAccepts(rec) ==
  /\ rec.unic_id.t = "string"
  /\ rec.project_name.t = "string"
  /\ rec.vintage.t = "number"
  /\ rec.status.t = "string" /\ rec.status.v \in { Active, Retired }

Parsed(rec) == Credit(rec.unic_id.v, rec.project_name.v, rec.vintage.v, rec.status.v)

\* z.array(creditSchema).parse(data)
ZodAccepts(data) == data.array /\ \A i \in 1..Len(data.items) : SchemaAccepts(data.items[i])

TimedOutMessage == "Request timed out. Please check your connection and try again."
NetworkErrorMessage == "Network error. Please check your internet connection."
InvalidDataMessage == "Invalid data format: <zod issues>"
NoCreditsMessage == "No credits data found"
JsonSyntaxMessage == "Unexpected token < in JSON at position 0"

\* what the fetch branch yields: the parsed body, or the error the inner
\* catch rethrows.  A rejected fetch ('Failed to fetch') and a response that
\* is not ok ('Failed to fetch data: ...') both have 'fetch' in the message.
Fetched(remote) ==
  CASE remote.kind = "json" -> Succeeded(remote.data)
    [] remote.kind = "timeout" -> Failed(Err(TimedOutMessage))
    [] remote.kind = "network" -> Failed(Err(NetworkErrorMessage))
    [] remote.kind = "http" -> Failed(Err(NetworkErrorMessage))
    [] remote.kind = "badjson" -> Failed(Err(JsonSyntaxMessage))

getCredits(e) ==
  LET got == IF e.dataUrl THEN Fetched(e.remote) ELSE Succeeded(e.bundled)
  IN IF ~got.ok THEN got
     ELSE IF ~ZodAccepts(got.value) THEN Failed(Err(InvalidDataMessage))
     ELSE IF Len(got.value.items) = 0 THEN Failed(Err(NoCreditsMessage))
     ELSE Succeeded([i \in 1..Len(got.value.items) |-> Parsed(got.value.items[i])])

\* ------------------------------------------------------ calculateDashboardStats
SetMin(S) == CHOOSE x \in S : \A y \in S : x <= y
SetMax(S) == CHOOSE x \in S : \A y \in S : x >= y

\* [...new Set(vintages)].sort((a, b) => b - a)
RECURSIVE Descending(_)
Descending(S) == IF S = {} THEN << >> ELSE << SetMax(S) >> \o Descending(S \ { SetMax(S) })

\* variant: the ends of the range change places
calculateDashboardStatsRangeSwapped(cs) ==
  LET vintages == { cs[i].vintage : i \in 1..Len(cs) }
  IN [totalCredits |-> Len(cs),
      activeCredits |-> Cardinality({ i \in 1..Len(cs) : cs[i].status = Active }),
      retiredCredits |-> Cardinality({ i \in 1..Len(cs) : cs[i].status = Retired }),
      vintageRange |-> IF Len(cs) > 0 THEN [min |-> SetMax(vintages), max |-> SetMin(vintages)]
                       ELSE [min |-> 0, max |-> 0],
      availableVintages |-> Descending(vintages)]
calculateDashboardStats(cs) ==
  LET vintages == { cs[i].vintage : i \in 1..Len(cs) }
  IN [totalCredits |-> Len(cs),
      activeCredits |-> Cardinality({ i \in 1..Len(cs) : cs[i].status = Active }),
      retiredCredits |-> Cardinality({ i \in 1..Len(cs) : cs[i].status = Retired }),
      vintageRange |-> IF Len(cs) > 0 THEN [min |-> SetMin(vintages), max |-> SetMax(vintages)]
                       ELSE [min |-> 0, max |-> 0],
      availableVintages |-> Descending(vintages)]

\* ----------------------------------------------------------------- useCredits
\* AppError.getDefaultUserMessage: message.includes('network') or ('fetch'),
\* then ('timeout'), then ('certificate').  None of the messages getCredits
\* produces has one of these words in this letter case.
MessageIncludes(message, word) == << message, word >> \in {}

DefaultUserMessage(message) ==
  IF MessageIncludes(message, "network") \/ MessageIncludes(message, "fetch")
  THEN "Network error occurred. Please check your connection and try again."
  ELSE IF MessageIncludes(message, "timeout") THEN "Request timed out. Please try again."
  ELSE IF MessageIncludes(message, "certificate")
  THEN "Certificate generation failed. Please try again."
  ELSE "An unexpected error occurred. Please try again."

\* new AppError(message, context, isRetryable, userMessage)
AppError(message, isRetryable, userMessage) ==
  [app |-> TRUE, message |-> message, isRetryable |-> isRetryable,
   userMessage |-> IF userMessage = "" THEN DefaultUserMessage(message) ELSE userMessage]

OfflineError ==
  AppError("No internet connection", TRUE, "Please check your internet connection and try again.")

\* the function useCredits hands to withRetry
LoadAttemptIgnoringNetwork(e, isOnline) == getCredits(e)
LoadAttempt(e, isOnline) == IF ~isOnline THEN Failed(OfflineError) ELSE getCredits(e)

\* loadCredits up to the first call of fn; lastLoad records who called it
BeginLoad(caller) ==
  /\ rt' = StartRetry(3, 1000, TRUE, TRUE)
  /\ uc' = [uc EXCEPT !.loading = TRUE, !.error = Null, !.lastLoad = caller]

\* the mount effect of useCredits
LoadOnMount ==
  /\ uc.lastLoad = "none"
  /\ BeginLoad("mount")
  /\ UNCHANGED << env, online, getPc, getResult, hookVars, fnVars, compVars >>

\* refetch: the Try Again button of the error screen, disabled while loading
refetch ==
  /\ uc.error # Null /\ ~uc.loading
  /\ BeginLoad("refetch")
  /\ UNCHANGED << env, online, getPc, getResult, hookVars, fnVars, compVars >>

\* one attempt of the load settles; onRetry is setRetryCount(attempt)
LoadAttemptSettles ==
  /\ rt.pc = "calling"
  /\ LET outcome == LoadAttempt(env, online)
         r == RetryStep(rt, outcome)
     IN /\ rt' = r
        /\ uc' = IF r.pc = "waiting" THEN [uc EXCEPT !.retryCount = rt.attempt] ELSE uc
        /\ getResult' = IF online THEN outcome ELSE getResult
  /\ UNCHANGED << env, online, getPc, hookVars, fnVars, compVars >>

LoadWaitEnds ==
  /\ rt.pc = "waiting"
  /\ rt' = RetryResume(rt)
  /\ UNCHANGED << uc, env, online, getPc, getResult, hookVars, fnVars, compVars >>

\* withRetry resolved: the rest of the try block and the finally
LoadSucceedsKeepLoading ==
  /\ rt.pc = "resolved"
  /\ Rerendered(transformCreditsWithMetadata(rt.result))
  /\ uc' = [uc EXCEPT !.stats = calculateDashboardStats(rt.result), !.retryCount = 0]
  /\ rt' = IdleRetry
  /\ UNCHANGED << env, online, getPc, getResult, fnVars, compVars >>
LoadSucceeds ==
  /\ rt.pc = "resolved"
  /\ Rerendered(transformCreditsWithMetadata(rt.result))
  /\ uc' = [uc EXCEPT !.stats = calculateDashboardStats(rt.result), !.retryCount = 0,
                       !.loading = FALSE]
  /\ rt' = IdleRetry
  /\ UNCHANGED << env, online, getPc, getResult, fnVars, compVars >>

\* withRetry rejected: the catch block and the finally
LoadFailsKeepLoading ==
  /\ rt.pc = "rejected"
  /\ LET appError == IF rt.lastError.app THEN rt.lastError
                     ELSE AppError(rt.lastError.message, TRUE, "")
     IN uc' = [uc EXCEPT !.error = appError.userMessage]
  /\ rt' = IdleRetry
  /\ UNCHANGED << env, online, getPc, getResult, hookVars, fnVars, compVars >>
LoadFails ==
  /\ rt.pc = "rejected"
  /\ LET appError == IF rt.lastError.app THEN rt.lastError
                     ELSE AppError(rt.lastError.message, TRUE, "")
     IN uc' = [uc EXCEPT !.error = appError.userMessage, !.loading = FALSE]
  /\ rt' = IdleRetry
  /\ UNCHANGED << env, online, getPc, getResult, hookVars, fnVars, compVars >>

\* NetworkMonitor.handleOnline / handleOffline
handleOnline ==
  /\ ~online
  /\ online' = TRUE
  /\ UNCHANGED << rt, uc, env, getPc, getResult, hookVars, fnVars, compVars >>

handleOffline ==
  /\ online
  /\ online' = FALSE
  /\ UNCHANGED << rt, uc, env, getPc, getResult, hookVars, fnVars, compVars >>

Data(items) == [array |-> TRUE, items |-> items]
NotAnArray == [array |-> FALSE, items |-> << >>]

\* answers of the remote data source while the dashboard runs
Remotes ==
  { [kind |-> "json", data |-> Data(<< Good2, Good1 >>)],
    [kind |-> "json", data |-> Data(<< Good1, FractionalVintage >>)],
    [kind |-> "json", data |-> Data(<< Good1, UnknownStatus >>)],
    [kind |-> "json", data |-> Data(<< >>)],
    [kind |-> "json", data |-> NotAnArray],
    [kind |-> "timeout", data |-> NoData],
    [kind |-> "network", data |-> NoData],
    [kind |-> "http", data |-> NoData],
    [kind |-> "badjson", data |-> NoData] }

\* the remote source starts to answer differently
RemoteChanges(remote) ==
  /\ env.dataUrl
  /\ remote # env.remote
  /\ env' = [env EXCEPT !.remote = remote]
  /\ UNCHANGED << rt, uc, online, getPc, getResult, hookVars, fnVars, compVars >>

Bundled == Data(<< Good2, Good1 >>)

\* App has rendered once: useCredits and useSearch([]) are mounted, the load
\* effect has not run yet
LoadInit ==
  /\ rt = IdleRetry
  /\ uc = [loading |-> TRUE, error |-> Null, stats |-> EmptyStats, retryCount |-> 0,
           lastLoad |-> "none"]
  /\ env \in [dataUrl : BOOLEAN, remote : Remotes, bundled : { Bundled }]
  /\ online \in BOOLEAN
  /\ getPc = "idle"
  /\ getResult = [ok |-> FALSE, error |-> NoErr]
  /\ LET a == MountHook(<< >>)
     IN /\ credits = a.cs
        /\ hook = [i \in Insts |-> IF i = "app" THEN a.h ELSE UnmountedHook]
  /\ viewMode = "cards"
  /\ table = NoTable
  /\ FnIdle
  /\ CompIdle

LoadNext ==
  \/ LoadOnMount
  \/ refetch
  \/ LoadAttemptSettles
  \/ LoadWaitEnds
  \/ LoadSucceeds
  \/ LoadFails
  \/ handleOnline
  \/ handleOffline
  \/ \E r \in Remotes : RemoteChanges(r)

SpecLoad == LoadInit /\ [][LoadNext]_vars

\* the event loop runs every pending continuation and expired timer.
\* LoadSucceeds can be taken exactly when rt.pc = "resolved",
\* and its weak fairness is written with that enabling condition spelled out.
LoadFairness ==
  /\ WF_vars(LoadOnMount)
  /\ WF_vars(LoadAttemptSettles)
  /\ WF_vars(LoadWaitEnds)
  /\ ([]<>(rt.pc # "resolved") \/ []<><<LoadSucceeds>>_vars)
  /\ WF_vars(LoadFails)

SpecLoadFair == SpecLoad /\ LoadFairness

\* ------------------------------------------------- withRetry on its own
Values == { << 1 >>, << 2 >> }
Errors ==
  { Err("e1"), Err("e2"), AppError("e3", TRUE, ""), AppError("e4", FALSE, "") }
Outcomes == { Succeeded(v) : v \in Values } \cup { Failed(e) : e \in Errors }
Delays == { 1000, 500 }

RetryInit ==
  /\ rt \in { StartRetry(m, d, b, o) :
                 m \in 1..MaxAttemptsBound, d \in Delays, b \in BOOLEAN, o \in BOOLEAN }
  /\ uc = [loading |-> FALSE, error |-> Null, stats |-> EmptyStats, retryCount |-> 0,
           lastLoad |-> "none"]
  /\ env = [dataUrl |-> FALSE, remote |-> [kind |-> "json", data |-> NoData], bundled |-> NoData]
  /\ online = TRUE
  /\ getPc = "idle"
  /\ getResult = [ok |-> FALSE, error |-> NoErr]
  /\ HookIdle
  /\ FnIdle
  /\ CompIdle

\* fn() settles
RetryAttempt(outcome) ==
  /\ rt.pc = "calling"
  /\ rt' = RetryStep(rt, outcome)
  /\ UNCHANGED << uc, env, online, getPc, getResult, hookVars, fnVars, compVars >>

RetryWaitEnds ==
  /\ rt.pc = "waiting"
  /\ rt' = RetryResume(rt)
  /\ UNCHANGED << uc, env, online, getPc, getResult, hookVars, fnVars, compVars >>

RetryNext ==
  \/ \E o \in Outcomes : RetryAttempt(o)
  \/ RetryWaitEnds

SpecRetry == RetryInit /\ [][RetryNext]_vars

\* ------------------------------------------------- getCredits on its own
GetEnvs ==
  [dataUrl : BOOLEAN,
   remote : { [kind |-> "json", data |-> Data(l)] : l \in SeqsUpTo(RawPool, MaxCredits) }
            \cup { r \in Remotes : r.kind # "json" \/ ~r.data.array },
   bundled : { Bundled, Data(<< >>) }]

GetInit ==
  /\ env \in GetEnvs
  /\ getPc = "ready"
  /\ getResult = [ok |-> FALSE, error |-> NoErr]
  /\ rt = IdleRetry
  /\ uc = [loading |-> FALSE, error |-> Null, stats |-> EmptyStats, retryCount |-> 0,
           lastLoad |-> "none"]
  /\ online = TRUE
  /\ HookIdle
  /\ FnIdle
  /\ CompIdle

GetCall ==
  /\ getPc = "ready"
  /\ getResult' = getCredits(env)
  /\ getPc' = "done"
  /\ UNCHANGED << rt, uc, env, online, hookVars, fnVars, compVars >>

GetNext == GetCall

SpecGet == GetInit /\ [][GetNext]_vars

\* ------------------------------------------------- the pure functions on their own
FnInit ==
  /\ fnPc = "raw"
  /\ fnRaw \in SeqsUpTo(CreditPool, MaxCredits)
  /\ fnCredits = << >>
  /\ fnArgs \in SearchArgs
  /\ fnResult = << >>
  /\ HookIdle
  /\ LoadIdle
  /\ CompIdle

\* the caller builds the metadata once after loading
FnTransform ==
  /\ fnPc = "raw"
  /\ fnCredits' = transformCreditsWithMetadata(fnRaw)
  /\ fnPc' = "ready"
  /\ UNCHANGED << fnRaw, fnArgs, fnResult, hookVars, loadVars, compVars >>

\* one call of searchAndFilterCredits
FnSearch ==
  /\ fnPc = "ready"
  /\ fnResult' = searchAndFilterCredits(fnCredits, fnArgs.query, fnArgs.statusFilter,
                                        fnArgs.vintageFilter, fnArgs.sortBy, fnArgs.sortOrder)
  /\ fnCredits' = CreditsAfterSearch(fnCredits, fnArgs.query, fnArgs.statusFilter,
                                     fnArgs.vintageFilter, fnArgs.sortBy, fnArgs.sortOrder)
  /\ fnPc' = "done"
  /\ UNCHANGED << fnRaw, fnArgs, hookVars, loadVars, compVars >>

\* the parameter defaults `sortBy = 'project_name'`, `sortOrder = 'asc'`
DefaultSortBy == "project_name"
DefaultSortOrder == "asc"

\* one call of searchAndFilterCredits without the two sort arguments
FnSearchDefaultSort ==
  /\ fnPc = "ready"
  /\ fnResult' = searchAndFilterCredits(fnCredits, fnArgs.query, fnArgs.statusFilter,
                                        fnArgs.vintageFilter, DefaultSortBy, DefaultSortOrder)
  /\ fnCredits' = CreditsAfterSearch(fnCredits, fnArgs.query, fnArgs.statusFilter,
                                     fnArgs.vintageFilter, DefaultSortBy, DefaultSortOrder)
  /\ fnPc' = "doneDefault"
  /\ UNCHANGED << fnRaw, fnArgs, hookVars, loadVars, compVars >>

FnNext == FnTransform \/ FnSearch \/ FnSearchDefaultSort

SpecFn == FnInit /\ [][FnNext]_vars

\* ------------------------------------------------- claims on the pure functions
FnInput == transformCreditsWithMetadata(fnRaw)

Count(s, x) == Cardinality({ i \in 1..Len(s) : s[i] = x })

Elements(s) == { s[i] : i \in 1..Len(s) }

\* the three criteria as C1 words them
SatisfiesQuery(c, query) ==
  Trim(query) = << >> \/ Includes(c.searchableText, ToLowerCase(Trim(query)))
SatisfiesStatus(c, statusFilter) == statusFilter = All \/ c.status = statusFilter
SatisfiesVintage(c, vintageFilter) == vintageFilter = AllVintages \/ c.vintage = vintageFilter

SatisfiesAll(c, a) ==
  /\ SatisfiesQuery(c, a.query)
  /\ SatisfiesStatus(c, a.statusFilter)
  /\ SatisfiesVintage(c, a.vintageFilter)

\* C1: the credits returned by searchAndFilterCredits are exactly the input
\* credits that satisfy the query, status and vintage criteria together, each
\* as often as it occurs in the input: none invented, none duplicated.
C1_ResultIsConjunctionOfCriteria ==
  fnPc = "done" =>
    \A c \in Elements(FnInput) \cup Elements(fnResult) :
      Count(fnResult, c) = IF SatisfiesAll(c, fnArgs) THEN Count(FnInput, c) ELSE 0

\* a call where all three criteria are active and they keep some credits and
\* drop others
C1_Witness ==
  /\ fnPc = "done"
  /\ Trim(fnArgs.query) # << >>
  /\ fnArgs.statusFilter # All
  /\ fnArgs.vintageFilter # AllVintages
  /\ fnResult # << >>
  /\ Len(fnResult) < Len(FnInput)

MatchesNameOrId(c, query) ==
  LET term == ToLowerCase(Trim(query))
  IN Includes(ToLowerCase(c.project_name), term) \/ Includes(ToLowerCase(c.unic_id), term)

\* C3: for a non-blank query a credit is in the result exactly when the
\* trimmed query, compared case-insensitively, is contained in its project
\* name or in its UNIC ID (and it passes the status and vintage filters).
C3_TextSearchIsNameOrIdOnly ==
  (fnPc = "done" /\ Trim(fnArgs.query) # << >>) =>
    \A c \in Elements(FnInput) :
      (c \in Elements(fnResult)) <=>
        /\ MatchesNameOrId(c, fnArgs.query)
        /\ SatisfiesStatus(c, fnArgs.statusFilter)
        /\ SatisfiesVintage(c, fnArgs.vintageFilter)

SameIgnoringCase(a, b) ==
  Len(a) = Len(b) /\ \A i \in 1..Len(a) : LowerChar(a[i]) = LowerChar(b[i])

UpperChar(c) ==
  IF CharCode(c) >= CharCode("a") /\ CharCode(c) <= CharCode("z")
  THEN Alphabet[CharCode(c) - 26] ELSE c

ToUpperCase(s) == [i \in 1..Len(s) |-> UpperChar(s[i])]

\* the same credit written in another letter case
CaseVariants(c) ==
  { Credit(id, name, c.vintage, c.status) :
      id \in { c.unic_id, ToUpperCase(c.unic_id), [i \in 1..Len(c.unic_id) |-> LowerChar(c.unic_id[i])] },
      name \in { c.project_name, ToUpperCase(c.project_name),
                 [i \in 1..Len(c.project_name) |-> LowerChar(c.project_name[i])] } }

SearchWith(cs, query) ==
  searchAndFilterCredits(cs, query, fnArgs.statusFilter, fnArgs.vintageFilter,
                         fnArgs.sortBy, fnArgs.sortOrder)

\* C6: search is case-insensitive: a query and any variant of it that differs
\* only in letter case return the same credits, and a credit is returned or
\* not regardless of the letter case of its project name and UNIC ID.
C6_SearchIsCaseInsensitive ==
  fnPc = "done" =>
    /\ \A q \in Queries :
         SameIgnoringCase(q, fnArgs.query) => SearchWith(FnInput, q) = fnResult
    /\ \A i \in 1..Len(fnRaw) : \A v \in CaseVariants(fnRaw[i]) :
         (SearchWith(transformCreditsWithMetadata(<< v >>), fnArgs.query) # << >>)
           <=> (WithMetadata(fnRaw[i]) \in Elements(fnResult))

\* a mixed-case query that finds a credit whose name is written in another case
C6_Witness ==
  /\ fnPc = "done"
  /\ fnArgs.query = << "S", "o", "L" >>
  /\ \E i \in 1..Len(fnResult) : fnResult[i].project_name = << "S", "o", "l" >>

\* ------------------------------------------------------- claims on useSearch
App == hook["app"]

\* C2: filteredResults.credits of useSearch is searchAndFilterCredits applied
\* to the current credits list, the current debounced query and the current
\* filter and sort settings, whatever calls and credits replacements came
\* before; it never reflects an earlier credits list.
C2_FilteredIsFunctionOfCurrentInputs ==
  App.mounted =>
    FilteredCredits("app") =
      searchAndFilterCredits(credits, App.debouncedQuery, App.searchState.statusFilter,
                             App.searchState.vintageFilter, App.searchState.sortBy,
                             App.searchState.sortOrder)

\* the credits that match the query and filters active in the dashboard
MatchingActiveFilters ==
  Elements(FilterCredits(credits, App.debouncedQuery, App.searchState.statusFilter,
                         App.searchState.vintageFilter))

\* C4: filters are maintained when switching view modes: right after the
\* switch to the table view the table holds exactly the credits that match
\* the dashboard's active query and filters, and right after the switch back
\* the card view holds that same set.
C4_FiltersKeptAcrossViewModes ==
  [][ /\ (viewMode = "cards" /\ viewMode' = "table")
           => (Elements(TableData) = MatchingActiveFilters)'
      /\ (viewMode = "table" /\ viewMode' = "cards")
           => (Elements(FilteredCredits("app")) = MatchingActiveFilters)' ]_vars

\* C5: after clearFilters the search state is the initial one, and once the
\* debounced query has caught up filteredResults holds every loaded credit
\* (filteredCount = totalCount) and hasActiveFilters is false.
C5_ClearFiltersShowsEveryCredit ==
  App.cleared =>
    /\ App.searchState = DefaultSearchState
    /\ App.debouncedQuery = App.searchState.query =>
         /\ \A c \in Elements(credits) \cup Elements(FilteredCredits("app")) :
              Count(FilteredCredits("app"), c) = Count(credits, c)
         /\ App.filteredResults.filteredCount = App.filteredResults.totalCount
         /\ ~App.filteredResults.hasActiveFilters

\* ------------------------------------------- claims on loading and retrying
\* the data source answers with an acceptable, non-empty list and the
\* browser is online
SourceAvailable == online /\ getCredits(env).ok

RefetchJustInvoked == uc.lastLoad = "refetch" /\ rt.pc = "calling" /\ rt.calls = 0

\* the load ended well with the list the source gave, and the dashboard's
\* search runs on it
Recovered ==
  /\ ~uc.loading
  /\ uc.error = Null
  /\ credits # << >>
  /\ getResult.ok
  /\ \A c \in Elements(credits) \cup Elements(transformCreditsWithMetadata(getResult.value)) :
       Count(credits, c) = Count(transformCreditsWithMetadata(getResult.value), c)
  /\ C2_FilteredIsFunctionOfCurrentInputs
  /\ App.filteredResults.filteredCount = Len(credits)

\* C7: after a load that ended in the error state, refetch invoked while the
\* data source is available leads to loading = false, error = null and the
\* loaded non-empty credits, on which search works (unless the source stops
\* being available first).
C7_RetryRecovers == (RefetchJustInvoked /\ SourceAvailable) ~> (Recovered \/ ~SourceAvailable)

\* a refetch from the error state has recovered
C7_Witness == uc.lastLoad = "refetch" /\ Recovered

Upto(n) == [k \in 1..n |-> k]

\* C8: withRetry calls fn at most maxAttempts times; it resolves with the
\* value of the first attempt that succeeds and attempts nothing after it; if
\* every attempt failed it rejects with the error of the last attempt; onRetry
\* is called once before each re-attempt with the number of the attempt that
\* just failed.
C8_RetryContract ==
  rt.pc # "idle" =>
    /\ rt.calls <= rt.maxAttempts
    /\ Len(rt.outcomes) = rt.calls
    /\ \A k \in 1..(rt.calls - 1) : ~rt.outcomes[k].ok
    /\ rt.pc = "resolved" <=> (rt.calls > 0 /\ rt.outcomes[rt.calls].ok)
    /\ rt.pc = "resolved" => rt.result = rt.outcomes[rt.calls].value
    /\ rt.pc = "rejected" => rt.lastError = rt.outcomes[rt.calls].error
    /\ (rt.calls = rt.maxAttempts /\ ~rt.outcomes[rt.calls].ok) => rt.pc = "rejected"
    /\ rt.onRetry =>
         rt.onRetryCalls = Upto(IF rt.pc = "waiting" THEN rt.calls ELSE rt.attempt - 1)
    /\ ~rt.onRetry => rt.onRetryCalls = << >>

\* the third attempt succeeded after two failures, onRetry saw 1 and 2
C8_Witness ==
  /\ rt.pc = "resolved"
  /\ rt.calls = 3
  /\ rt.onRetryCalls = << 1, 2 >>

\* C9: with backoff the wait before attempt k+1 is delay * 2^(k-1) (1000 ms
\* then 2000 ms with the defaults), without backoff it is always delay, and
\* no wait follows the final failed attempt.
C9_ExponentialBackoff ==
  rt.pc # "idle" =>
    /\ \A k \in 1..Len(rt.waits) :
         rt.waits[k] = IF rt.backoff THEN rt.delay * Pow2(k - 1) ELSE rt.delay
    /\ Len(rt.waits) = IF rt.pc = "waiting" THEN rt.calls ELSE rt.attempt - 1
    /\ rt.pc = "rejected" => Len(rt.waits) = rt.calls - 1
    /\ (rt.backoff /\ rt.delay = 1000 /\ Len(rt.waits) >= 2)
         => (rt.waits[1] = 1000 /\ rt.waits[2] = 2000)

\* every attempt of a call with the default options failed
C9_Witness ==
  /\ rt.pc = "rejected"
  /\ rt.maxAttempts = 3 /\ rt.delay = 1000 /\ rt.backoff
  /\ rt.calls = 3
  /\ rt.waits = << 1000, 2000 >>

\* the Credit definition of the glossary
ConformsToCredit(rec) ==
  /\ rec.unic_id.t = "string"
  /\ rec.project_name.t = "string"
  /\ rec.vintage.t = "number" /\ IsInteger(rec.vintage.v)
  /\ rec.status.t = "string" /\ rec.status.v \in { Active, Retired }

\* the body getCredits reads, when it gets one
SourceBody == IF env.dataUrl THEN env.remote.data ELSE env.bundled
SourceHasBody == ~env.dataUrl \/ env.remote.kind = "json"

\* C10: getCredits resolves only with a non-empty list all of whose records
\* conform to the Credit definition, and then with the whole list; a source
\* with a record that does not conform is rejected with 'Invalid data
\* format', an empty source with 'No credits data found'.
C10_GetCreditsValidates ==
  getPc = "done" =>
    /\ getResult.ok =>
         /\ SourceHasBody /\ SourceBody.array
         /\ getResult.value # << >>
         /\ Len(getResult.value) = Len(SourceBody.items)
         /\ \A i \in 1..Len(SourceBody.items) :
              /\ ConformsToCredit(SourceBody.items[i])
              /\ getResult.value[i] = Parsed(SourceBody.items[i])
    /\ (SourceHasBody /\ SourceBody.array
          /\ \E i \in 1..Len(SourceBody.items) : ~ConformsToCredit(SourceBody.items[i]))
         => (~getResult.ok /\ getResult.error.message = InvalidDataMessage)
    /\ (SourceHasBody /\ SourceBody.array /\ SourceBody.items = << >>)
         => (~getResult.ok /\ getResult.error.message = NoCreditsMessage)


\* ------------------------------------------- calculateDashboardStats on its own
\* the lists the statistics are computed of
StatsPool == CreditPool \cup { Credit(<< "U", "4" >>, << "A", "i", "r" >>, Num(2020), Active) }

StatsInit ==
  /\ statsCall \in { [pc |-> "ready", credits |-> l, result |-> EmptyStats] :
                       l \in SeqsUpTo(StatsPool, MaxStatsCredits) }
  /\ ui = NoUi
  /\ pg = NoPg
  /\ vg = NoVg
  /\ FnIdle
  /\ HookIdle
  /\ LoadIdle

\* one call of calculateDashboardStats
StatsCall ==
  /\ statsCall.pc = "ready"
  /\ statsCall' = [statsCall EXCEPT !.pc = "done",
                                    !.result = calculateDashboardStats(statsCall.credits)]
  /\ UNCHANGED << ui, pg, vg, fnVars, hookVars, loadVars >>

StatsNext == StatsCall

SpecStats == StatsInit /\ [][StatsNext]_vars

RECURSIVE CountStatus(_, _)
CountStatus(cs, status) ==
  IF cs = << >> THEN 0
  ELSE (IF Head(cs).status = status THEN 1 ELSE 0) + CountStatus(Tail(cs), status)

\* C11: the statistics of a credits list: totalCredits its length,
\* activeCredits and retiredCredits the numbers of Active and Retired credits
\* (together totalCredits), availableVintages the distinct vintages of the
\* list in descending order, vintageRange the least and the greatest vintage
\* ({min: 0, max: 0} for the empty list).
C11_StatsAreCorrect ==
  statsCall.pc = "done" =>
    LET cs == statsCall.credits
        r == statsCall.result
        av == r.availableVintages
    IN /\ r.totalCredits = Len(cs)
       /\ r.activeCredits = CountStatus(cs, Active)
       /\ r.retiredCredits = CountStatus(cs, Retired)
       /\ r.activeCredits + r.retiredCredits = r.totalCredits
       /\ \A i, j \in 1..Len(av) : i < j => av[i] > av[j]
       /\ { av[i] : i \in 1..Len(av) } = { cs[i].vintage : i \in 1..Len(cs) }
       /\ IF cs = << >> THEN r.vintageRange = [min |-> 0, max |-> 0]
          ELSE /\ \E i \in 1..Len(cs) : cs[i].vintage = r.vintageRange.min
               /\ \E i \in 1..Len(cs) : cs[i].vintage = r.vintageRange.max
               /\ \A i \in 1..Len(cs) : /\ r.vintageRange.min <= cs[i].vintage
                                          /\ cs[i].vintage <= r.vintageRange.max

\* statistics of a list with both statuses and a vintage that occurs twice
C11_Witness ==
  /\ statsCall.pc = "done"
  /\ statsCall.result.totalCredits = 3
  /\ statsCall.result.activeCredits = 1
  /\ Len(statsCall.result.availableVintages) = 2
  /\ statsCall.result.vintageRange.min < statsCall.result.vintageRange.max

\* ------------------------------------------------------- claims on useCredits
LoadRunning == rt.pc # "idle"

\* the credits and the statistics are those of the list getCredits gave
ShowsLoadedData ==
  /\ getResult.ok
  /\ \A c \in Elements(credits) \cup Elements(transformCreditsWithMetadata(getResult.value)) :
       Count(credits, c) = Count(transformCreditsWithMetadata(getResult.value), c)
  /\ uc.stats = calculateDashboardStats(getResult.value)

LoadStateConsistent ==
  /\ LoadRunning => (uc.loading /\ uc.error = Null)
  /\ (~uc.loading /\ uc.error = Null) => ShowsLoadedData
  /\ ~uc.loading => (uc.error # Null => uc.error # "")

\* a step that ends a load in failure leaves credits and stats alone, and
\* credits and stats change only in a step that ends a load in success
LoadStepConsistent ==
  /\ (uc.loading /\ ~uc'.loading /\ uc'.error # Null)
        => (credits' = credits /\ uc'.stats = uc.stats)
  /\ (credits' # credits \/ uc'.stats # uc.stats)
        => (uc.loading /\ ~uc'.loading /\ uc'.error = Null)

\* C12: every load terminates with a consistent state: while it runs loading
\* is true and error null; loading becomes false in the end however the load
\* goes; after a success error is null and credits and stats are those of the
\* loaded data; after a failure error is a non-empty message and credits and
\* stats are what they were.
C12_LoadTerminatesConsistently ==
  /\ []LoadStateConsistent
  /\ [][LoadStepConsistent]_vars
  /\ (uc.loading ~> ~uc.loading)

\* the first load used up its three attempts and ended in the error state
C12_Witness ==
  /\ uc.lastLoad = "mount"
  /\ ~uc.loading
  /\ uc.error # Null
  /\ uc.retryCount = 2
  /\ credits = << >>

\* ---------------------------------------------- the dialogs and the downloads
\* Credit | null
NullCredit == << >>
Some(c) == << c >>

\* what the certificate generation of one download does
PdfOutcomes == { "saved", "failed", "unavailable" }
HtmlOutcomes == { "saved", "failed" }

NoDownload == [format |-> "none", pdf |-> "none", html |-> "none"]

PdfSuccessTitle == "PDF certificate downloaded successfully!"
PdfErrorTitle == "Failed to download PDF certificate"
HtmlSuccessTitle == "HTML certificate downloaded successfully!"
HtmlErrorTitle == "Failed to download HTML certificate"

Toast(type, title) == [type |-> type, title |-> title]

\* downloadCertificateAsHTML: resolves once the file is handed to the browser,
\* rejects with a new Error when building it throws
downloadCertificateAsHTML(html) == html = "saved"

\* downloadCertificateAsPDF: falls back to the HTML download when html2pdf is
\* missing and when anything in the PDF branch throws
downloadCertificateAsPDF(pdf, html) ==
  IF pdf = "unavailable" THEN downloadCertificateAsHTML(html)
  ELSE IF pdf = "saved" THEN TRUE
  ELSE downloadCertificateAsHTML(html)

\* App and CertificateDialog after the first render with the data loaded.
\* lastClick, shown, download and toasts keep what the last click was, the
\* credit whose details were open at it, what the generation of the current
\* download did and the toasts shown for that download.
DialogsMounted ==
  [pc |-> "mounted", selectedCredit |-> NullCredit, certificateCredit |-> NullCredit,
   isDownloadingPDF |-> FALSE, isDownloadingHTML |-> FALSE, detailsDownload |-> "none",
   lastClick |-> "none", shown |-> NullCredit, download |-> NoDownload, toasts |-> {}]

NoDialogOpen == ui.selectedCredit = NullCredit /\ ui.certificateCredit = NullCredit

UiStep(next) ==
  /\ ui.pc = "mounted"
  /\ ui' = next
  /\ UNCHANGED << statsCall, pg, vg, fnVars, hookVars, loadVars >>

\* App.handleViewDetails, from a credit card or a table row
handleViewDetails(c) ==
  /\ NoDialogOpen
  /\ UiStep([ui EXCEPT !.selectedCredit = Some(c), !.lastClick = "viewDetails"])

\* App.handleDownloadCertificate, from a credit card
handleDownloadCertificate(c) ==
  /\ NoDialogOpen
  /\ UiStep([ui EXCEPT !.certificateCredit = Some(c), !.lastClick = "cardDownload"])

handleCloseDetails ==
  /\ ui.selectedCredit # NullCredit
  /\ UiStep([ui EXCEPT !.selectedCredit = NullCredit, !.lastClick = "closeDetails"])

handleCloseCertificate ==
  /\ ui.certificateCredit # NullCredit
  /\ UiStep([ui EXCEPT !.certificateCredit = NullCredit, !.lastClick = "closeCertificate"])

\* CreditDetailsDialog.handleDownloadCertificate: the Download Certificate
\* button of the details dialog calls downloadCertificate(credit)
DetailsDownloadCertificate ==
  /\ ui.selectedCredit # NullCredit
  /\ ui.detailsDownload # "running"
  /\ UiStep([ui EXCEPT !.lastClick = "detailsDownload", !.shown = ui.selectedCredit,
                        !.detailsDownload = "running"])

\* the promise of that call settles; nothing awaits it
DetailsDownloadSettles(pdf, html) ==
  /\ ui.detailsDownload = "running"
  /\ UiStep([ui EXCEPT !.detailsDownload =
                IF downloadCertificateAsPDF(pdf, html) THEN "resolved" ELSE "rejected"])

DownloadButtonsEnabled ==
  /\ ui.certificateCredit # NullCredit
  /\ ~ui.isDownloadingPDF /\ ~ui.isDownloadingHTML

\* CertificateDialog.handleDownloadPDF up to the await
handleDownloadPDF ==
  /\ DownloadButtonsEnabled
  /\ UiStep([ui EXCEPT !.isDownloadingPDF = TRUE, !.lastClick = "downloadPDF",
                        !.download = [NoDownload EXCEPT !.format = "pdf"], !.toasts = {}])

\* the rest of handleDownloadPDF: the toast and the finally block
DownloadPDFSettles(pdf, html) ==
  /\ ui.isDownloadingPDF
  /\ UiStep([ui EXCEPT
        !.isDownloadingPDF = FALSE,
        !.download = [format |-> "pdf", pdf |-> pdf,
                      html |-> IF pdf = "saved" THEN "none" ELSE html],
        !.toasts = IF downloadCertificateAsPDF(pdf, html)
                   THEN { Toast("success", PdfSuccessTitle) }
                   ELSE { Toast("error", PdfErrorTitle) }])

\* CertificateDialog.handleDownloadHTML up to the await
handleDownloadHTML ==
  /\ DownloadButtonsEnabled
  /\ UiStep([ui EXCEPT !.isDownloadingHTML = TRUE, !.lastClick = "downloadHTML",
                        !.download = [NoDownload EXCEPT !.format = "html"], !.toasts = {}])

\* the rest of handleDownloadHTML
DownloadHTMLSettles(html) ==
  /\ ui.isDownloadingHTML
  /\ UiStep([ui EXCEPT
        !.isDownloadingHTML = FALSE,
        !.download = [format |-> "html", pdf |-> "none", html |-> html],
        !.toasts = IF downloadCertificateAsHTML(html)
                   THEN { Toast("success", HtmlSuccessTitle) }
                   ELSE { Toast("error", HtmlErrorTitle) }])

\* the credits on the screen
ShownCredits == { WithMetadata(c) : c \in HookPool }

UiInit ==
  /\ ui = DialogsMounted
  /\ statsCall = NoStatsCall
  /\ pg = NoPg
  /\ vg = NoVg
  /\ FnIdle
  /\ HookIdle
  /\ LoadIdle

UiNext ==
  \/ \E c \in ShownCredits : handleViewDetails(c)
  \/ \E c \in ShownCredits : handleDownloadCertificate(c)
  \/ handleCloseDetails
  \/ handleCloseCertificate
  \/ DetailsDownloadCertificate
  \/ \E pdf \in PdfOutcomes, html \in HtmlOutcomes : DetailsDownloadSettles(pdf, html)
  \/ handleDownloadPDF
  \/ \E pdf \in PdfOutcomes, html \in HtmlOutcomes : DownloadPDFSettles(pdf, html)
  \/ handleDownloadHTML
  \/ \E html \in HtmlOutcomes : DownloadHTMLSettles(html)

SpecUi == UiInit /\ [][UiNext]_vars

\* C13: right after Download Certificate is clicked in the details dialog the
\* details dialog is closed and the certificate dialog is open for the credit
\* whose details were shown.
C13_DetailsDownloadOpensCertificate ==
  (ui.pc = "mounted" /\ ui.lastClick = "detailsDownload") =>
    /\ ui.selectedCredit = NullCredit
    /\ ui.certificateCredit = ui.shown

\* the generation of the current certificate-dialog download failed
GenerationFailed == ui.download.pdf = "failed" \/ ui.download.html = "failed"

DownloadSettled ==
  /\ ui.pc = "mounted"
  /\ ui.download.format # "none"
  /\ ~ui.isDownloadingPDF /\ ~ui.isDownloadingHTML

\* C14: when generating the PDF or the HTML certificate failed in the
\* certificate dialog, an error toast and no success toast is shown for that
\* download.
C14_FailedGenerationShowsErrorToast ==
  (DownloadSettled /\ GenerationFailed) =>
    /\ \E t \in ui.toasts : t.type = "error"
    /\ \A t \in ui.toasts : t.type # "success"

\* ------------------------------------------------ which grid App renders
\* `filteredResults.credits.length > 100`
VirtualScrollThreshold == 100

shouldUseVirtualScrollingFromThreshold == Len(FilteredCredits("app")) >= VirtualScrollThreshold
shouldUseVirtualScrolling == Len(FilteredCredits("app")) > VirtualScrollThreshold

\* the component App returns for the main section
Rendered ==
  IF uc.error # Null THEN "ErrorScreen"
  ELSE IF uc.loading THEN "DashboardLoading"
  ELSE IF viewMode = "cards"
       THEN (IF shouldUseVirtualScrolling THEN "VirtualCreditGrid" ELSE "CreditGrid")
       ELSE "DataTable"

\* a fetched list of n records, named u1001, u1002, ...: the first nActive are
\* Active, the others Retired; the odd ones are of vintage 21, the even ones
\* of vintage 7
BigCredits(n, nActive) ==
  [i \in 1..n |->
     Credit(<< "u" >> \o NatToString(1000 + i), << "s", "u", "n" >>,
            IF i % 2 = 1 THEN Num(21) ELSE Num(7),
            IF i <= nActive THEN Active ELSE Retired)]

GridLists ==
  { BigCredits(VirtualScrollThreshold + 1, VirtualScrollThreshold),
    BigCredits(VirtualScrollThreshold, 50) }

GridQueries == { << >>, << "u", "1", "0", "1" >> }

\* the dashboard on mount, the first attempt of the fetch having resolved
\* with a long list
GridInit ==
  /\ rt \in { RetryStep(StartRetry(3, 1000, TRUE, TRUE), Succeeded(l)) : l \in GridLists }
  /\ uc = [loading |-> TRUE, error |-> Null, stats |-> EmptyStats, retryCount |-> 0,
           lastLoad |-> "mount"]
  /\ env = [dataUrl |-> FALSE, remote |-> [kind |-> "json", data |-> NoData], bundled |-> NoData]
  /\ online = TRUE
  /\ getPc = "idle"
  /\ getResult = [ok |-> FALSE, error |-> NoErr]
  /\ LET a == MountHook(<< >>)
     IN /\ credits = a.cs
        /\ hook = [i \in Insts |-> IF i = "app" THEN a.h ELSE UnmountedHook]
  /\ viewMode = "cards"
  /\ table = NoTable
  /\ FnIdle
  /\ CompIdle

GridNext ==
  \/ LoadSucceeds
  \/ \E q \in GridQueries : setQuery("app", q)
  \/ \E f \in StatusFilters : setStatusFilter("app", f)
  \/ \E v \in VintageFilters : setVintageFilter("app", v)
  \/ clearFilters("app")
  \/ DebounceFire("app")
  \/ \E mode \in { "cards", "table" } : handleViewModeChange(mode)

SpecGrid == GridInit /\ [][GridNext]_vars

\* how many credits of the loaded list match the query and filters in force
MatchCount ==
  Cardinality({ i \in 1..Len(credits) :
                  SatisfiesAll(credits[i], [query |-> App.debouncedQuery,
                                            statusFilter |-> App.searchState.statusFilter,
                                            vintageFilter |-> App.searchState.vintageFilter]) })

MathMax(a, b) == IF a >= b THEN a ELSE b
MathMin(a, b) == IF a <= b THEN a ELSE b

\* Math.ceil(a / b) for a >= 0, b >= 1
MathCeilDiv(a, b) == (a + b - 1) \div b

\* Array.prototype.slice(start, end) for start, end >= 0
Slice(items, start, end) ==
  IF MathMin(start, Len(items)) >= MathMin(end, Len(items)) THEN << >>
  ELSE SubSeq(items, MathMin(start, Len(items)) + 1, MathMin(end, Len(items)))

totalPages(totalItems, itemsPerPage) == MathMax(1, MathCeilDiv(totalItems, itemsPerPage))

startIndexFromPageNumber(currentPage, itemsPerPage) == currentPage * itemsPerPage
startIndex(currentPage, itemsPerPage) == (currentPage - 1) * itemsPerPage

endIndex(currentPage, itemsPerPage, totalItems) ==
  MathMin(startIndex(currentPage, itemsPerPage) + itemsPerPage, totalItems)

hasNextPage(currentPage, totalItems, itemsPerPage) ==
  currentPage < totalPages(totalItems, itemsPerPage)

hasPreviousPage(currentPage) == currentPage > 1

\* the safe page of setCurrentPage
safePageUnclamped(page, totalItems, itemsPerPage) == page
safePage(page, totalItems, itemsPerPage) ==
  MathMax(1, MathMin(page, totalPages(totalItems, itemsPerPage)))

getPageItems(items, currentPage, itemsPerPage, totalItems) ==
  Slice(items, startIndex(currentPage, itemsPerPage),
        endIndex(currentPage, itemsPerPage, totalItems))

\* the page after the render-time reset: setCurrentPageState(1) when the page
\* is beyond the last one, and the render that follows it
ResetToLastPage(currentPage, totalItems, itemsPerPage) ==
  IF currentPage > totalPages(totalItems, itemsPerPage) /\ totalPages(totalItems, itemsPerPage) > 0
  THEN totalPages(totalItems, itemsPerPage) ELSE currentPage
ResetToFirstPage(currentPage, totalItems, itemsPerPage) ==
  IF currentPage > totalPages(totalItems, itemsPerPage) /\ totalPages(totalItems, itemsPerPage) > 0
  THEN 1 ELSE currentPage

\* the list a paginated component is given: n distinct items
ItemsOf(n) == [i \in 1..n |-> i]

\* arguments tried on setCurrentPage
PageArgs == (0 - 2)..(MaxItems + 2)

\* usePagination in a component that passes it items.length, as CreditGrid
\* does; `last` records the operation that led to this render
PgTotalItems == Len(pg.items)
PgTotalPages == totalPages(PgTotalItems, pg.itemsPerPage)

PageAfter(op, arg, items, itemsPerPage, currentPage) ==
  [pc |-> "mounted", items |-> items, itemsPerPage |-> itemsPerPage,
   currentPage |-> ResetToFirstPage(currentPage, Len(items), itemsPerPage),
   last |-> [op |-> op, arg |-> arg, page |-> currentPage]]

PageStep(next) ==
  /\ pg.pc = "mounted"
  /\ pg' = next
  /\ UNCHANGED << fnVars, hookVars, loadVars, statsCall, ui, vg >>

setCurrentPage(page) ==
  PageStep(PageAfter("setCurrentPage", page, pg.items, pg.itemsPerPage,
                     safePage(page, PgTotalItems, pg.itemsPerPage)))

nextPage ==
  PageStep(PageAfter("nextPage", 0, pg.items, pg.itemsPerPage,
                     IF hasNextPage(pg.currentPage, PgTotalItems, pg.itemsPerPage)
                     THEN safePage(pg.currentPage + 1, PgTotalItems, pg.itemsPerPage)
                     ELSE pg.currentPage))

previousPage ==
  PageStep(PageAfter("previousPage", 0, pg.items, pg.itemsPerPage,
                     IF hasPreviousPage(pg.currentPage)
                     THEN safePage(pg.currentPage - 1, PgTotalItems, pg.itemsPerPage)
                     ELSE pg.currentPage))

goToFirstPage ==
  PageStep(PageAfter("goToFirstPage", 0, pg.items, pg.itemsPerPage,
                     safePage(1, PgTotalItems, pg.itemsPerPage)))

goToLastPage ==
  PageStep(PageAfter("goToLastPage", 0, pg.items, pg.itemsPerPage,
                     safePage(PgTotalPages, PgTotalItems, pg.itemsPerPage)))

\* the parent renders the component with another list or itemsPerPage
PagePropsChange(n, itemsPerPage) ==
  /\ n # PgTotalItems \/ itemsPerPage # pg.itemsPerPage
  /\ PageStep(PageAfter("props", 0, ItemsOf(n), itemsPerPage, pg.currentPage))

InitialPages == 1..2

PageInit ==
  /\ pg \in { PageAfter("mount", 0, ItemsOf(n), itemsPerPage, initialPage) :
                n \in 0..MaxItems, itemsPerPage \in 1..MaxItemsPerPage,
                initialPage \in InitialPages }
  /\ statsCall = NoStatsCall
  /\ ui = NoUi
  /\ vg = NoVg
  /\ FnIdle
  /\ HookIdle
  /\ LoadIdle

PageNext ==
  \/ \E page \in PageArgs : setCurrentPage(page)
  \/ nextPage
  \/ previousPage
  \/ goToFirstPage
  \/ goToLastPage
  \/ \E n \in 0..MaxItems, itemsPerPage \in 1..MaxItemsPerPage : PagePropsChange(n, itemsPerPage)

SpecPage == PageInit /\ [][PageNext]_vars

\* the least number of pages of itemsPerPage items that hold totalItems items
PagesNeeded(totalItems, itemsPerPage) ==
  CHOOSE k \in 0..totalItems :
    /\ k * itemsPerPage >= totalItems
    /\ \A j \in 0..totalItems : j * itemsPerPage >= totalItems => j >= k

\* C16: in every render of usePagination, after any sequence of
\* setCurrentPage (with any integer), nextPage, previousPage, goToFirstPage,
\* goToLastPage and changes of totalItems, 1 <= currentPage <= totalPages,
\* where totalPages = max(1, ceil(totalItems / itemsPerPage)).
C16_PageWithinBounds ==
  pg.pc = "mounted" =>
    /\ 1 <= pg.currentPage
    /\ pg.currentPage <= MathMax(1, PagesNeeded(Len(pg.items), pg.itemsPerPage))
    /\ PgTotalPages = MathMax(1, PagesNeeded(Len(pg.items), pg.itemsPerPage))

\* setCurrentPage was called with a page beyond the last of several pages
C16_Witness ==
  /\ pg.pc = "mounted"
  /\ pg.last.op = "setCurrentPage"
  /\ pg.last.arg > PgTotalPages
  /\ PgTotalPages >= 2
  /\ pg.currentPage = PgTotalPages

RECURSIVE ConcatPages(_, _, _)
ConcatPages(items, itemsPerPage, upTo) ==
  IF upTo = 0 THEN << >>
  ELSE ConcatPages(items, itemsPerPage, upTo - 1)
         \o getPageItems(items, upTo, itemsPerPage, Len(items))

\* C17: the slices getPageItems returns for currentPage = 1..totalPages are
\* consecutive and disjoint, and put one after the other they give the whole
\* list in its order; a page holds at most itemsPerPage items, and every page
\* but the last holds exactly itemsPerPage.
C17_PagesPartitionTheList ==
  pg.pc = "mounted" =>
    /\ ConcatPages(pg.items, pg.itemsPerPage, PgTotalPages) = pg.items
    /\ \A p \in 1..PgTotalPages :
         LET page == getPageItems(pg.items, p, pg.itemsPerPage, Len(pg.items))
         IN /\ Len(page) <= pg.itemsPerPage
            /\ p < PgTotalPages => Len(page) = pg.itemsPerPage
            /\ \A k \in 1..Len(page) : page[k] = pg.items[(p - 1) * pg.itemsPerPage + k]

\* the last of three pages is shown and holds fewer items than the others
C17_Witness ==
  /\ pg.pc = "mounted"
  /\ PgTotalPages = 3
  /\ pg.itemsPerPage = 3
  /\ pg.currentPage = 3
  /\ pg.last.op \in { "nextPage", "goToLastPage" }
  /\ getPageItems(pg.items, pg.currentPage, pg.itemsPerPage, Len(pg.items)) = << 7 >>

PagePropsChanged ==
  /\ pg.pc = "mounted"
  /\ pg'.pc = "mounted"
  /\ Len(pg'.items) # Len(pg.items) \/ pg'.itemsPerPage # pg.itemsPerPage

C18_Step ==
  PagePropsChanged =>
    /\ pg.currentPage > MathMax(1, PagesNeeded(Len(pg'.items), pg'.itemsPerPage))
         => pg'.currentPage = 1
    /\ pg.currentPage <= MathMax(1, PagesNeeded(Len(pg'.items), pg'.itemsPerPage))
         => pg'.currentPage = pg.currentPage

\* C18: when totalItems or itemsPerPage changes so that the current page is
\* beyond the new totalPages, currentPage becomes 1; a change that leaves
\* currentPage <= totalPages leaves currentPage as it was.
C18_ResetToFirstPageOnShrink == [][C18_Step]_vars

\* the list shrank under page 3 of 3, leaving two pages
C18_Witness ==
  /\ pg.pc = "mounted"
  /\ pg.last.op = "props"
  /\ pg.last.page = 3
  /\ PgTotalPages = 2
  /\ pg.currentPage = 1

\* -------------------------------------------------------- VirtualCreditGrid
\* the virtualScrollThreshold and itemsPerPage props tried
ThresholdProps == { 2 }
ItemsPerPageProps == 1..2

\* the lists given as credits: for each length two lists of different credits
GridCredits ==
  { [i \in 1..n |-> base + i] : n \in 0..MaxGridItems, base \in { 0, 10 } }

\* `enableVirtualScrolling && credits.length > virtualScrollThreshold`, with
\* enableVirtualScrolling true as App passes it
VgShouldUseVirtualScrolling(v) == Len(v.credits) > v.virtualScrollThreshold

\* `credits.slice(visibleRange.start, visibleRange.end)` or all credits
visibleCredits(v) ==
  IF ~VgShouldUseVirtualScrolling(v) THEN v.credits
  ELSE Slice(v.credits, v.visibleRange.start, v.visibleRange.end)

\* the load-more element is rendered, so the observer has an element
SentinelRendered(v) ==
  /\ Len(v.credits) > 0
  /\ VgShouldUseVirtualScrolling(v)
  /\ v.visibleRange.end < Len(v.credits)

\* the load-more effect: loadMoreItems() when the sentinel is visible; it
\* sets isLoadingMore and a 100 ms timer that keeps credits.length and
\* itemsPerPage of this render
loadMoreItemsWhileLoading(v) ==
  IF v.visibleRange.end >= Len(v.credits) THEN v
  ELSE [v EXCEPT !.isLoadingMore = TRUE,
                 !.timers = Append(@, [length |-> Len(v.credits),
                                       itemsPerPage |-> v.itemsPerPage])]
loadMoreItems(v) ==
  IF v.isLoadingMore \/ v.visibleRange.end >= Len(v.credits) THEN v
  ELSE [v EXCEPT !.isLoadingMore = TRUE,
                 !.timers = Append(@, [length |-> Len(v.credits),
                                       itemsPerPage |-> v.itemsPerPage])]

LoadMoreEffect(v) ==
  IF v.isLoadMoreVisible /\ VgShouldUseVirtualScrolling(v) THEN loadMoreItems(v) ELSE v

\* the reset effect, run when credits.length or itemsPerPage changed
\* (variant: run when credits or itemsPerPage changed)
ResetVisibleRangeOnCreditsChange(v, before) ==
  IF v.credits # before.credits \/ v.itemsPerPage # before.itemsPerPage
  THEN [v EXCEPT !.visibleRange = [start |-> 0, end |-> MathMin(v.itemsPerPage, Len(v.credits))]]
  ELSE v
ResetVisibleRange(v, before) ==
  IF Len(v.credits) # Len(before.credits) \/ v.itemsPerPage # before.itemsPerPage
  THEN [v EXCEPT !.visibleRange = [start |-> 0, end |-> MathMin(v.itemsPerPage, Len(v.credits))]]
  ELSE v

\* a render of v, `before` being the render before it: the effects in their
\* order, then the render their state updates cause and its load-more effect
VgCommit(v, before) == LoadMoreEffect(ResetVisibleRange(LoadMoreEffect(v), before))

VgStep(op, v) ==
  /\ vg.pc = "mounted"
  /\ vg' = [VgCommit(v, vg) EXCEPT !.last = op]
  /\ UNCHANGED << fnVars, hookVars, loadVars, statsCall, ui, pg >>

\* the parent renders the grid with another list or itemsPerPage
VgPropsChange(cs, itemsPerPage) ==
  /\ cs # vg.credits \/ itemsPerPage # vg.itemsPerPage
  /\ VgStep("props", [vg EXCEPT !.credits = cs, !.itemsPerPage = itemsPerPage])

\* a scroll event, 16 ms later: scrollTop / 300 is startIndex, and rows is
\* Math.ceil(containerHeight / itemHeight)
handleScroll(scrollIndex, rows) ==
  /\ vg.pc = "mounted"
  /\ VgShouldUseVirtualScrolling(vg)
  /\ scrollIndex < Len(vg.credits)
  /\ LET range == [start |-> scrollIndex,
                   end |-> MathMin(scrollIndex + rows + 5, Len(vg.credits))]
     IN VgStep("scroll", [vg EXCEPT !.visibleRange = range])

\* the intersection observer reports on the load-more element
ObserverReports(isIntersecting) ==
  /\ vg.pc = "mounted"
  /\ SentinelRendered(vg)
  /\ isIntersecting # vg.isLoadMoreVisible
  /\ VgStep("observer", [vg EXCEPT !.isLoadMoreVisible = isIntersecting])

\* the 100 ms timer of loadMoreItems expires
LoadMoreTimerFires ==
  /\ vg.pc = "mounted"
  /\ vg.timers # << >>
  /\ LET t == Head(vg.timers)
     IN VgStep("loadMore",
               [vg EXCEPT !.timers = Tail(@),
                          !.visibleRange =
                             [start |-> @.start,
                              end |-> MathMin(@.end + t.itemsPerPage, t.length)],
                          !.isLoadingMore = FALSE])

\* first render: `useState({ start: 0, end: itemsPerPage })`, then the effects
VgMounted(cs, itemsPerPage, threshold) ==
  LET first == [pc |-> "mounted", credits |-> cs, itemsPerPage |-> itemsPerPage,
                virtualScrollThreshold |-> threshold,
                visibleRange |-> [start |-> 0, end |-> itemsPerPage],
                isLoadingMore |-> FALSE, isLoadMoreVisible |-> FALSE,
                timers |-> << >>, last |-> "mount"]
      reset == [first EXCEPT !.visibleRange =
                               [start |-> 0, end |-> MathMin(itemsPerPage, Len(cs))]]
  IN LoadMoreEffect(reset)

VgInit ==
  /\ vg \in { VgMounted(cs, itemsPerPage, threshold) :
                cs \in GridCredits, itemsPerPage \in ItemsPerPageProps,
                threshold \in ThresholdProps }
  /\ statsCall = NoStatsCall
  /\ ui = NoUi
  /\ pg = NoPg
  /\ FnIdle
  /\ HookIdle
  /\ LoadIdle

VgNext ==
  \/ \E cs \in GridCredits, itemsPerPage \in ItemsPerPageProps : VgPropsChange(cs, itemsPerPage)
  \/ \E scrollIndex \in 0..MaxGridItems, rows \in 1..2 : handleScroll(scrollIndex, rows)
  \/ \E isIntersecting \in BOOLEAN : ObserverReports(isIntersecting)
  \/ LoadMoreTimerFires

SpecVirtualGrid == VgInit /\ [][VgNext]_vars

C19_Step ==
  (vg.pc = "mounted" /\ vg'.pc = "mounted" /\ vg'.credits # vg.credits) =>
    vg'.visibleRange = [start |-> 0,
                        end |-> IF vg'.itemsPerPage <= Len(vg'.credits)
                                THEN vg'.itemsPerPage ELSE Len(vg'.credits)]

\* C19: whenever the credits list given to VirtualCreditGrid changes, the
\* visible range is reset to start = 0 and end = min(itemsPerPage,
\* credits.length), so that the grid shows the beginning of the new list.
C19_RangeResetOnCreditsChange == [][C19_Step]_vars

\* ------------------------------------------------ order of the search result
\* the sort arguments of the call that gave fnResult
CalledSortBy == IF fnPc = "doneDefault" THEN "project_name" ELSE fnArgs.sortBy
CalledSortOrder == IF fnPc = "doneDefault" THEN "asc" ELSE fnArgs.sortOrder

\* the key the claim orders by
OrderKey(c) ==
  CASE CalledSortBy = "vintage" -> c.vintage
    [] CalledSortBy = "status" -> c.status
    [] OTHER -> ToLowerCase(c.project_name)

OrderKeyBelow(x, y) == IF CalledSortBy = "vintage" THEN x < y ELSE StrLess(x, y)

\* the credits that passed the filters, in the order of the list passed in
FilteredInput ==
  FilterCredits(transformCreditsWithMetadata(fnRaw), fnArgs.query, fnArgs.statusFilter,
                fnArgs.vintageFilter)

ResultInKeyOrder ==
  \A i, j \in 1..Len(fnResult) :
    i < j => IF CalledSortOrder = "asc"
             THEN ~OrderKeyBelow(OrderKey(fnResult[j]), OrderKey(fnResult[i]))
             ELSE ~OrderKeyBelow(OrderKey(fnResult[i]), OrderKey(fnResult[j]))

EqualKeysKeepInputOrder ==
  \A k \in 1..Len(FilteredInput) :
    LET SameKey(c) == OrderKey(c) = OrderKey(FilteredInput[k])
    IN SelectSeq(fnResult, SameKey) = SelectSeq(FilteredInput, SameKey)

\* C20: the list searchAndFilterCredits returns is ordered by the sortBy key
\* (project_name without regard to case, vintage as a number, status as a
\* string), ascending for 'asc' and descending for 'desc'; credits with equal
\* keys keep their input order; without sort arguments the order is
\* project_name ascending.
C20_ResultOrderedBySortKey ==
  fnPc \in { "done", "doneDefault" } =>
    /\ Len(fnResult) = Len(FilteredInput)
    /\ ResultInKeyOrder
    /\ EqualKeysKeepInputOrder

\* a descending sort by name of two credits whose names differ only in case
C20_Witness ==
  /\ fnPc = "done"
  /\ fnArgs.sortBy = "project_name"
  /\ fnArgs.sortOrder = "desc"
  /\ Len(fnResult) = 2
  /\ fnResult[1].project_name = << "s", "u", "n" >>
  /\ fnResult[2].project_name = << "S", "U", "N" >>

\* --------------------------------------------- the array passed to the search
\* C21: searchAndFilterCredits never changes its input: after every call,
\* those with a blank query and both filters 'all' included, the array passed
\* in holds the same elements in the same order as before the call.
C21_SearchLeavesInputUnchanged ==
  fnPc \in { "done", "doneDefault" } => fnCredits = transformCreditsWithMetadata(fnRaw)

\* ------------------------------------------------------ errors not retried
\* attempt k of withRetry failed with an AppError whose isRetryable is false
FailedForGood(k) ==
  /\ ~rt.outcomes[k].ok
  /\ rt.outcomes[k].error.app
  /\ ~rt.outcomes[k].error.isRetryable

\* C22: when fn rejects with an AppError whose isRetryable is false, withRetry
\* attempts nothing more, does not call onRetry for it, waits for no delay and
\* rejects with that error; after any other error (an AppError with
\* isRetryable true, a plain Error) it goes on until maxAttempts is reached.
C22_NonRetryableStopsRetry ==
  rt.pc # "idle" =>
    /\ \A k \in 1..rt.calls :
         FailedForGood(k) =>
           /\ k = rt.calls
           /\ rt.pc = "rejected"
           /\ rt.lastError = rt.outcomes[k].error
           /\ Len(rt.waits) = k - 1
           /\ Len(rt.onRetryCalls) = IF rt.onRetry THEN k - 1 ELSE 0
    /\ rt.pc = "rejected" => (rt.calls = rt.maxAttempts \/ FailedForGood(rt.calls))
    /\ (rt.calls > 0 /\ ~rt.outcomes[rt.calls].ok /\ ~FailedForGood(rt.calls)
          /\ rt.calls < rt.maxAttempts) => rt.pc \in { "waiting", "calling" }

\* the second of at least three attempts failed with a non-retryable AppError
\* after a plain Error had been retried
C22_Witness ==
  /\ rt.pc = "rejected"
  /\ rt.calls = 2
  /\ rt.maxAttempts >= 3
  /\ rt.onRetry
  /\ ~rt.outcomes[1].error.app
  /\ FailedForGood(2)
  /\ rt.onRetryCalls = << 1 >>

\* ------------------------------------------------------- loading while offline
\* the failure of an attempt that found the monitor offline
IsOfflineFailure(outcome) ==
  /\ ~outcome.ok
  /\ outcome.error.app
  /\ outcome.error.isRetryable
  /\ outcome.error.message = "No internet connection"

\* this step is an attempt of the load settling
AttemptSettles == rt.pc = "calling" /\ rt'.calls = rt.calls + 1

\* this step is the load ending after three attempts that were all offline
EndsAfterThreeOfflineAttempts ==
  /\ rt.pc = "rejected"
  /\ rt'.pc = "idle"
  /\ rt.calls = 3
  /\ \A k \in 1..3 : IsOfflineFailure(rt.outcomes[k])

C23_Step ==
  /\ (AttemptSettles /\ ~online) =>
       /\ IsOfflineFailure(rt'.outcomes[rt'.calls])
       /\ getResult' = getResult
  /\ (AttemptSettles /\ online) =>
       /\ ~IsOfflineFailure(rt'.outcomes[rt'.calls])
       /\ getResult' = rt'.outcomes[rt'.calls]
  /\ EndsAfterThreeOfflineAttempts =>
       /\ uc'.error = "Please check your internet connection and try again."
       /\ ~uc'.loading

\* C23: while the NetworkMonitor reports offline a load attempt of useCredits
\* does not call getCredits and fails with the retryable 'No internet
\* connection' error; a load whose three attempts were all offline ends with
\* error = 'Please check your internet connection and try again.'; an attempt
\* made after the monitor turned online calls getCredits.
C23_OfflineAttemptsIssueNoRequest == [][C23_Step]_vars

\* the first two attempts were offline, the monitor turned online, and the
\* third attempt got its answer from getCredits
C23_Witness ==
  /\ rt.calls = 3
  /\ IsOfflineFailure(rt.outcomes[1])
  /\ IsOfflineFailure(rt.outcomes[2])
  /\ ~IsOfflineFailure(rt.outcomes[3])
  /\ getResult = rt.outcomes[3]
  /\ online

\* -------------------------------------------------- generatePaginationItems
\* an element of the list: a page number or '...'
PageItem(n) == [ellipsis |-> FALSE, page |-> n]
Ellipsis == [ellipsis |-> TRUE, page |-> 0]

\* the items pushed by `for (let i = from; i <= to; i++) items.push(i)`
PagesFromTo(from, to) == [i \in 1..(to - from + 1) |-> PageItem(from + i - 1)]

EllipsisIfMoreThanFour(lastPage) == IF lastPage > 4 THEN << Ellipsis >> ELSE << >>

\* show first pages: 1, 2, 3, 4, ..., last
FirstPagesItems(lastPage) ==
  PagesFromTo(1, MathMin(4, lastPage - 1))
    \o EllipsisIfMoreThanFour(lastPage) \o << PageItem(lastPage) >>

\* show last pages: 1, ..., last-3, last-2, last-1, last
LastPagesItemsFromLastMinusThree(lastPage) ==
  << PageItem(1) >> \o EllipsisIfMoreThanFour(lastPage)
    \o PagesFromTo(lastPage - 3, lastPage)
LastPagesItems(lastPage) ==
  << PageItem(1) >> \o EllipsisIfMoreThanFour(lastPage)
    \o PagesFromTo(MathMax(lastPage - 3, 2), lastPage)

\* show middle pages: 1, ..., current-1, current, current+1, ..., last
MiddlePagesItems(currentPage, lastPage) ==
  << PageItem(1), Ellipsis, PageItem(currentPage - 1), PageItem(currentPage),
     PageItem(currentPage + 1), Ellipsis, PageItem(lastPage) >>

generatePaginationItems(currentPage, lastPage, maxVisiblePages) ==
  IF lastPage <= maxVisiblePages THEN PagesFromTo(1, lastPage)
  ELSE IF currentPage <= 3 THEN FirstPagesItems(lastPage)
  ELSE IF currentPage >= lastPage - 2 THEN LastPagesItems(lastPage)
  ELSE MiddlePagesItems(currentPage, lastPage)

\* `maxVisiblePages: number = 5`
DefaultMaxVisiblePages == 5

\* the maxVisiblePages arguments tried: the default, smaller ones and a larger one
MaxVisiblePagesArgs == 1..(DefaultMaxVisiblePages + 1)

\* a call of generatePaginationItems with 1 <= currentPage <= totalPages, as
\* CreditGrid makes in every render
ItemsInit ==
  /\ pg \in { [pc |-> "call", currentPage |-> currentPage, totalPages |-> tp,
                maxVisiblePages |-> maxVisiblePages, items |-> << >>] :
                tp \in 1..MaxPages, currentPage \in 1..MaxPages,
                maxVisiblePages \in MaxVisiblePagesArgs }
  /\ pg.currentPage <= pg.totalPages
  /\ statsCall = NoStatsCall
  /\ ui = NoUi
  /\ vg = NoVg
  /\ FnIdle
  /\ HookIdle
  /\ LoadIdle

ItemsCall ==
  /\ pg.pc = "call"
  /\ pg' = [pg EXCEPT !.pc = "returned",
                       !.items = generatePaginationItems(pg.currentPage, pg.totalPages,
                                                         pg.maxVisiblePages)]
  /\ UNCHANGED << fnVars, hookVars, loadVars, statsCall, ui, vg >>

ItemsNext == ItemsCall

SpecItems == ItemsInit /\ [][ItemsNext]_vars

\* the page numbers of the returned list, in its order
IsPageNumber(item) == ~item.ellipsis
ReturnedPages == SelectSeq(pg.items, IsPageNumber)

\* C24: for 1 <= currentPage <= totalPages the page numbers in the list
\* generatePaginationItems returns are strictly increasing, and page 1,
\* currentPage and totalPages are among them; when totalPages <=
\* maxVisiblePages the list is exactly 1..totalPages, without an ellipsis.
C24_PaginationItemsWellFormed ==
  pg.pc = "returned" =>
    /\ \A i, j \in 1..Len(ReturnedPages) :
         i < j => ReturnedPages[i].page < ReturnedPages[j].page
    /\ \A n \in { 1, pg.currentPage, pg.totalPages } :
         \E i \in 1..Len(ReturnedPages) : ReturnedPages[i].page = n
    /\ pg.totalPages <= pg.maxVisiblePages =>
         /\ Len(pg.items) = pg.totalPages
         /\ \A i \in 1..pg.totalPages : pg.items[i] = [ellipsis |-> FALSE, page |-> i]

\* page 5 of 9 with the default maxVisiblePages: 1 ... 4 5 6 ... 9
C24_Witness ==
  /\ pg.pc = "returned"
  /\ pg.currentPage = 5
  /\ pg.totalPages = 9
  /\ pg.maxVisiblePages = 5
  /\ Len(pg.items) = 7
  /\ pg.items[2].ellipsis
  /\ pg.items[4].page = 5

\* ------------------------------------------------- incremental rendering
\* a timer set by loadMoreItems always expires
LoadMoreFairness == WF_vars(LoadMoreTimerFires)

SpecVirtualGridFair == SpecVirtualGrid /\ LoadMoreFairness

\* virtual scrolling is active, the sentinel is visible, credits are left to show
LoadingMore ==
  /\ vg.pc = "mounted"
  /\ VgShouldUseVirtualScrolling(vg)
  /\ vg.isLoadMoreVisible
  /\ vg.visibleRange.end < Len(vg.credits)

\* all credits are shown, or the sentinel went out of sight, or the user
\* scrolled or the parent passed other props meanwhile
LoadedAllOrInterrupted ==
  \/ vg.visibleRange.end >= Len(vg.credits)
  \/ ~vg.isLoadMoreVisible
  \/ ~VgShouldUseVirtualScrolling(vg)
  \/ vg.last \in { "scroll", "props" }

\* at most one load-more step is pending, and isLoadingMore tells whether one is
OneLoadMorePending ==
  vg.pc = "mounted" =>
    /\ Len(vg.timers) <= 1
    /\ vg.isLoadingMore <=> vg.timers # << >>

\* this step is a load-more step: the timer of loadMoreItems expired
IsLoadMoreStep == vg.pc = "mounted" /\ vg' # vg /\ vg'.last = "loadMore"

\* this step starts a load-more step
StartsLoadMore == vg.pc = "mounted" /\ vg.timers = << >> /\ vg'.timers # << >>

C25_Step ==
  /\ IsLoadMoreStep =>
       /\ vg'.visibleRange.start = vg.visibleRange.start
       /\ vg'.visibleRange.end <= vg.visibleRange.end + Head(vg.timers).itemsPerPage
       /\ (vg'.credits = vg.credits /\ Head(vg.timers).length = Len(vg.credits))
            => /\ vg'.visibleRange.end >= vg.visibleRange.end
               /\ vg'.visibleRange.end <= Len(vg.credits)
  /\ StartsLoadMore =>
       /\ vg'.visibleRange.end < Len(vg'.credits)
       /\ vg'.isLoadMoreVisible
       /\ VgShouldUseVirtualScrolling(vg')

\* C25: while virtual scrolling is active and the load-more sentinel stays
\* visible, a load-more step leaves start as it is and moves the visible end
\* forward by at most the itemsPerPage it was started with, at most one
\* load-more step is pending at a time, no load-more step is started once the
\* visible end has reached credits.length, and the visible end does reach
\* credits.length eventually.
C25_LoadMoreReachesTheEnd ==
  /\ []OneLoadMorePending
  /\ [][C25_Step]_vars
  /\ (LoadingMore ~> LoadedAllOrInterrupted)

\* four credits shown one more at a time, the last load-more step just done
C25_Witness ==
  /\ vg.pc = "mounted"
  /\ vg.last = "loadMore"
  /\ vg.itemsPerPage = 1
  /\ Len(vg.credits) = 4
  /\ vg.visibleRange = [start |-> 0, end |-> 4]
  /\ vg.isLoadMoreVisible
  /\ vg.timers = << >>
====